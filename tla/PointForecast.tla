---- MODULE PointForecast ----
(***************************************************************************)
(* What a provider answers: the mock to a location, FourCastNet to a       *)
(* location and the archive of a hosted inference, the report of a hosted  *)
(* inference to its archive.  Nothing is kept from one question to the     *)
(* next, so a behaviour is one question and its answer.                    *)
(***************************************************************************)
EXTENDS MockForecast, FourCastNetDecoder

CONSTANT Questions

\* Any array of numbers that numpy can load and whose leading axes (the one before the
\* variables, or the two of them) are not empty, any entry, and any archive, also a cut
\* off one
ArrayType ==
  [ndim : Nat, variables : Nat, rows : Nat, columns : Nat, slope : Int,
   cells : [w10m : Int, t2m : Int, msl : Int, tcwv : Int], holes : SUBSET [row : Nat, column : Nat]]
EntryType ==
  [kind : {"array"}, lead : Nat, batch : Nat, array : ArrayType]
  \cup [kind : {"foreign", "damaged", "directory"}]
ArchiveType ==
  [entries : Seq(EntryType), upTo : Nat, ends : {"whole", "between", "inside", "compressed"}]

\* Coordinates are those schemas/forecast.py allows, in thousandths of a degree.
ASSUME QuestionsAssumption ==
  \A q \in Questions : /\ q.provider \in {"mock", "fourcastnet", "report"}
                       /\ q.latitude \in Int /\ Abs(q.latitude) <= 90000
                       /\ q.longitude \in Int /\ Abs(q.longitude) <= 180000
                       /\ q.archive \in ArchiveType /\ q.archive.upTo <= Len(q.archive.entries)

VARIABLES asked, answer
vars == <<asked, answer>>

Unanswered == [status |-> "asked"]

Init == asked \in Questions /\ answer = Unanswered

AnswerMock ==
  /\ asked.provider = "mock"
  /\ answer' = MockForecast(asked.latitude \div 1000, asked.longitude \div 1000)

AnswerFourCastNet ==
  /\ asked.provider = "fourcastnet"
  /\ answer' = ForecastFromTar(asked.archive, asked.latitude, asked.longitude)

AnswerReport ==
  /\ asked.provider = "report"
  /\ answer' = DecodeTar(asked.archive)

Next ==
  /\ answer = Unanswered /\ (AnswerMock \/ AnswerFourCastNet \/ AnswerReport)
  /\ UNCHANGED asked

Spec == Init /\ [][Next]_vars

----------------------------------------------------------------------------
(* Properties *)

Served == answer.status = "served"
FromArchive == asked.provider = "fourcastnet" /\ Served

\* Everything answered meets the constraints of schemas/forecast.py, which the code
\* checks only when it builds the answer and whose failure nothing catches: whatever
\* finite values the model or the service gives, the proxies stay between 0 and 100 %,
\* the confidence between 0 and 1, and no summary has an empty timeline.
ForecastTypeOK ==
  /\ asked.provider \in {"mock", "fourcastnet", "report"}
  /\ answer.status \in {"asked", "served", "unavailable", "error", "decoded"}
  /\ Served => /\ answer.timeline # <<>> /\ ValidTimeline(answer.timeline)
               /\ answer.window.end >= answer.window.start
  /\ answer.status = "decoded" => /\ Len(answer.leads) <= answer.count
                                  /\ Len(answer.batches) <= answer.count

\* The grid has its first row at the north pole and its last at the south pole, and its
\* columns go east from the first meridian.  A row is nearest if no other is nearer;
\* distances of columns go around the globe.
RowDistance(array, latitude, row) ==
  Abs((90000 - latitude) * (array.rows - 1) - 180000 * row)
ColumnDistance(array, longitude, column) ==
  LET apart == Abs((longitude % 360000) * array.columns - 360000 * column)
  IN Min({apart, 360000 * array.columns - apart})
NearestRows(array, latitude) ==
  IF array.rows = 1 THEN {0}
  ELSE LET least == Min({RowDistance(array, latitude, r) : r \in 0..(array.rows - 1)})
       IN {r \in 0..(array.rows - 1) : RowDistance(array, latitude, r) = least}
NearestColumns(array, longitude) ==
  LET least == Min({ColumnDistance(array, longitude, c) : c \in 0..(array.columns - 1)})
  IN {c \in 0..(array.columns - 1) : ColumnDistance(array, longitude, c) = least}

\* Every step is made from the values of a grid point nearest to the location, across
\* the first meridian too, and none of them is one where the array is not finite
\* (_grid_indices, _read_grid_value).
SampledNearest ==
  FromArchive =>
    \A i \in DOMAIN answer.timeline :
      LET step == answer.timeline[i]
      IN \E e \in ToSet(asked.archive.entries) :
           /\ e.kind = "array" /\ e.lead = step.lead
           /\ \E row \in NearestRows(e.array, asked.latitude),
                 column \in NearestColumns(e.array, asked.longitude) :
                LET point == [row |-> row, column |-> column]
                    values == ReadGridValues(e.array, point)
                IN /\ point \notin e.array.holes
                   /\ step.temperature = OneDecimal(ToCelsius(values.t2m), 1)
                   /\ step.wind = OneDecimal(Max({0, values.w10m}), 1)

\* The entries of an archive that could be loaded, by place
Loadable == {i \in DOMAIN Listed(asked.archive) : Array(Listed(asked.archive)[i])}

\* The batch of a forecast: the first member of the ensemble, or else the lowest of
\* those that have the earliest lead time
BatchOf(entries) ==
  LET earliest == Min({entries[i].lead : i \in Loadable})
  IN IF \E i \in Loadable : entries[i].batch = 0 THEN 0
     ELSE Min({entries[i].batch : i \in {j \in Loadable : entries[j].lead = earliest}})

\* A timeline has one step for each lead time of one batch, in their order, made from the
\* first entry of the archive that has it; no step mixes batches.
OneBatch ==
  LET entries == Listed(asked.archive)
      batch == BatchOf(entries)
      Has(lead) == {i \in Loadable : entries[i].batch = batch /\ entries[i].lead = lead}
      leads == {entries[i].lead : i \in {j \in Loadable : entries[j].batch = batch}}
      timeline == answer.timeline
  IN /\ {timeline[i].lead : i \in DOMAIN timeline} = leads
     /\ \A i \in DOMAIN timeline : i > 1 => timeline[i - 1].lead < timeline[i].lead
     /\ \A i \in DOMAIN timeline :
          LET array == entries[Min(Has(timeline[i].lead))].array
              point == GridIndices(array, asked.latitude, asked.longitude)
          IN timeline[i] = BuildTimelineStep(timeline[i].lead, ReadGridValues(array, point),
                                             LoadTarMembers(asked.archive).warnings)

\* Without the entries that could not be used the forecast would be the same, with a
\* confidence that is higher in every step that is not at the floor of 0.55.
LossMarked ==
  LET entries == Listed(asked.archive)
      lost == {i \in DOMAIN entries : entries[i].kind \in {"foreign", "damaged"}}
      kept == Ascending(Loadable)
      intact == [asked.archive EXCEPT !.entries = [k \in DOMAIN kept |-> entries[kept[k]]],
                                      !.upTo = Len(kept)]
      better == ForecastFromTar(intact, asked.latitude, asked.longitude)
  IN lost # {} =>
       /\ Len(better.timeline) = Len(answer.timeline)
       /\ \A i \in DOMAIN answer.timeline :
            LET step == answer.timeline[i]
                other == better.timeline[i]
            IN /\ step = [other EXCEPT !.confidence = step.confidence]
               /\ step.confidence < other.confidence \/ step.confidence = 550

\* What is in the archive is chosen by lead time, batch and place only, and what had to
\* be left out shows in the confidence (_load_tar_members, _select_batch_members).
TimelineSelected == FromArchive => OneBatch /\ LossMarked

\* Kelvin and Pascals, above 170 K and up to 170 degrees Celsius, above 2 kPa and up to 200 kPa:
\* what no threshold takes for Celsius or hectopascals, nor its conversion for the opposite
KelvinAndPascals(archive) ==
  \A i \in DOMAIN archive.entries :
    Array(archive.entries[i]) =>
      LET array == archive.entries[i].array
      IN /\ \A row \in 0..(array.rows - 1) :
              LET t2m == ReadGridValues(array, [row |-> row, column |-> 0]).t2m
              IN 170000 < t2m /\ t2m <= 443150
         /\ 2000000 < array.cells.msl /\ array.cells.msl <= 200000000
         /\ array.cells.msl % 100 = 0

\* The service may give temperatures in Kelvin or degrees Celsius, and pressures in Pa or
\* hPa: the same weather in the other units gives the same forecast
\* (the thresholds of _to_celsius and _to_hpa).
InOtherUnits(entry) ==
  LET Converted(cells) == [w10m |-> cells.w10m, t2m |-> cells.t2m - 273150,
                           msl |-> cells.msl \div 100, tcwv |-> cells.tcwv]
  IN IF Array(entry) THEN [entry EXCEPT !.array.cells = Converted(@)] ELSE entry
OtherUnits(archive) ==
  [archive EXCEPT !.entries = [i \in DOMAIN @ |-> InOtherUnits(@[i])]]
SameInOtherUnits ==
  FromArchive /\ KelvinAndPascals(asked.archive) =>
    answer = ForecastFromTar(OtherUnits(asked.archive), asked.latitude, asked.longitude)

\* The signals of a summary, from thresholds of their own, agree with the conditions of
\* its steps: there is no elevated rain signal without a step that watches for rain, no
\* such step with a low rain signal, and the windiest step of a windy timeline is not
\* called clear or humid (_choose_condition and _build_signals of both providers).
SignalsAgree ==
  Served =>
    LET Conditions == {answer.timeline[i].condition : i \in DOMAIN answer.timeline}
        Windiest == {i \in DOMAIN answer.timeline :
                       \A j \in DOMAIN answer.timeline :
                         answer.timeline[j].wind <= answer.timeline[i].wind}
    IN /\ answer.signals.precipitation = "elevated" => "rain_watch" \in Conditions
       /\ "rain_watch" \in Conditions => answer.signals.precipitation # "low"
       /\ answer.signals.wind = "moderate" =>
            \A i \in Windiest : answer.timeline[i].condition \in {"breezy", "rain_watch"}

\* What is served can be built and does not contradict itself, whatever finite values it
\* is made from (ForecastSummary and ForecastTimelineStep, _choose_condition and
\* _build_signals of both providers, build_forecast_summary_from_tar_bytes).
SummaryCoherent == ForecastTypeOK /\ SignalsAgree
====
