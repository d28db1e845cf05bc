---- MODULE FourCastNetDecoder ----
(***************************************************************************)
(* FourCastNetPostProcessor: from the tar of a hosted inference to the     *)
(* forecast of a point, or to the report on the arrays it holds.           *)
(*                                                                         *)
(* An archive is the sequence of its entries and how the bytes end: whole, *)
(* or cut off `between' entries, `inside' the one after `upTo', or in a    *)
(* `compressed' stream.  An array has ndim axes, the last two of them the  *)
(* grid; `cells' is what it holds of w10m, t2m, msl and tcwv in row 0 and  *)
(* column 0, and `holes' the grid points where it is not finite.           *)
(***************************************************************************)
EXTENDS ForecastRules, SequencesExt

Listed(archive) ==
  IF archive.ends = "between" THEN SubSeq(archive.entries, 1, archive.upTo) ELSE archive.entries

\* The kinds of entries that tarfile takes for files
File(entry) == entry.kind # "directory"
Array(entry) == entry.kind = "array"

\* tarfile raises before it has listed any entry.
Unlisted(archive) == archive.ends = "inside" \/ (archive.ends = "between" /\ archive.upTo = 0)

\* The order of lead times and batches.  The sort is stable: entries of the same name stay
\* in the order of the archive.
ByName(entries, places) ==
  {pair \in places \X places :
     LET first == entries[pair[1]]
         second == entries[pair[2]]
     IN \/ first.lead < second.lead
        \/ first.lead = second.lead /\ first.batch < second.batch
        \/ first.lead = second.lead /\ first.batch = second.batch /\ pair[1] < pair[2]}

LoadTarMembers(archive) ==
  LET entries == Listed(archive)
      files == IF Unlisted(archive) THEN {} ELSE {i \in DOMAIN entries : File(entries[i])}
      arrays == {i \in files : Array(entries[i])}
      order == InOrder(arrays, ByName(entries, arrays))
  IN [members |-> [k \in DOMAIN order |-> entries[order[k]]],
      warnings |-> Cardinality(files \ arrays) + IF Unlisted(archive) THEN 1 ELSE 0]

\* Slip: the first member of a lead time is taken from whichever batch has it.
SelectAnyBatch(members) ==
  LET leads == Ascending({members[i].lead : i \in DOMAIN members})
  IN [k \in DOMAIN leads |-> members[Min({i \in DOMAIN members : members[i].lead = leads[k]})]]

\* The first member of each lead time of one batch, by lead time
SelectBatchMembers(members) ==
  LET batch == IF \E i \in DOMAIN members : members[i].batch = 0 THEN 0 ELSE members[1].batch
      ofBatch == {i \in DOMAIN members : members[i].batch = batch}
      leads == Ascending({members[i].lead : i \in ofBatch})
  IN [k \in DOMAIN leads |-> members[Min({i \in ofBatch : members[i].lead = leads[k]})]]

----------------------------------------------------------------------------
(* Sampling.  Coordinates are in thousandths of a degree. *)

\* Slip: a location just west of the first meridian is not wrapped around.
GridIndicesUnwrapped(array, latitude, longitude) ==
  [row |-> IF array.rows > 1
           THEN Clamp(0, array.rows - 1, HalfEven((90000 - latitude) * (array.rows - 1), 180000))
           ELSE 0,
   column |-> Clamp(0, array.columns - 1,
                    HalfEven((longitude % 360000) * array.columns, 360000))]

GridIndices(array, latitude, longitude) ==
  [row |-> IF array.rows > 1
           THEN Clamp(0, array.rows - 1, HalfEven((90000 - latitude) * (array.rows - 1), 180000))
           ELSE 0,
   column |-> HalfEven((longitude % 360000) * array.columns, 360000) % array.columns]

\* The sampled variables are the first four of FOURCASTNET_POINT_VARIABLES.  They are read
\* at index 0 of the leading axes, which are not empty.
Readable(array, point) ==
  /\ array.ndim \in {4, 5} /\ array.rows > 0 /\ array.columns > 0
  /\ array.variables >= 4 /\ point \notin array.holes

\* Its values may differ from row to row and from column to column.
ReadGridValues(array, point) ==
  [array.cells EXCEPT !.t2m = @ + array.slope * 100 * point.row,
                      !.w10m = @ + array.slope * 100 * point.column]

\* Slip: what is above 300 K is taken for Kelvin only.
ToCelsiusHot(value) == IF value > 300000 THEN value - 273150 ELSE value
ToCelsius(value) == IF value > 170000 THEN value - 273150 ELSE value

\* _to_hpa and its rounding
Hectopascals(value) == IF value > 2000000 THEN OneDecimal(value, 100) ELSE OneDecimal(value, 1)
HumidityPercent(tcwv) == OneDecimal(Clamp(150000, 980000, tcwv * 15), 10)

EstimatePrecipitationProbability(humidity, pressure, wind) ==
  Clamp(2000, 95000, (Max({0, humidity - 45000}) * 85) \div 100
                     + (Max({0, 1013250 - pressure}) * 14) \div 10
                     + Min({12000, (wind * 8) \div 10}))

Confidence(lead, warnings) == TwoDecimals(Clamp(550, 950, 920 - 3 * lead - 30 * warnings), 1)

BuildTimelineStep(lead, values, warnings) ==
  LET wind == OneDecimal(Max({0, values.w10m}), 1)
      humidity == HumidityPercent(values.tcwv)
      pressure == Hectopascals(values.msl)
  IN Step(lead, OneDecimal(ToCelsius(values.t2m), 1), wind, humidity,
          OneDecimal(EstimatePrecipitationProbability(humidity, pressure, wind), 1),
          pressure, Confidence(lead, warnings))

----------------------------------------------------------------------------
Unavailable == [status |-> "unavailable"]
\* EOFError of a compressed stream: no handler expects it.
Raised == [status |-> "error"]

\* One selected member that cannot be sampled fails the whole forecast, one that cannot
\* be loaded does not.
ForecastFromTar(archive, latitude, longitude) ==
  LET loaded == LoadTarMembers(archive)
      selected == IF loaded.members = <<>> THEN <<>> ELSE SelectBatchMembers(loaded.members)
      Point(i) == GridIndices(selected[i].array, latitude, longitude)
      timeline == [i \in DOMAIN selected |->
                     BuildTimelineStep(selected[i].lead,
                                       ReadGridValues(selected[i].array, Point(i)),
                                       loaded.warnings)]
  IN CASE archive.ends = "compressed" -> Raised
       [] archive.ends # "compressed" /\ (\/ selected = <<>>
                                          \/ \E i \in DOMAIN selected :
                                               ~Readable(selected[i].array, Point(i))) ->
            Unavailable
       [] OTHER ->
            [status |-> "served", timeline |-> timeline, signals |-> Signals(timeline),
             headline |-> timeline[1].condition, metrics |-> Metrics(timeline[1]),
             window |-> [start |-> timeline[1].lead, end |-> timeline[Len(timeline)].lead,
                         leads |-> [i \in DOMAIN timeline |-> timeline[i].lead]]]

\* decode_tar_bytes, the report of a hosted inference (without what it says of each array
\* and of what was lost)
DecodeTar(archive) ==
  LET members == LoadTarMembers(archive).members
      Arrays == {members[i] : i \in DOMAIN members}
  IN IF archive.ends = "compressed" THEN Raised
     ELSE [status |-> "decoded", count |-> Len(members),
           leads |-> Ascending({m.lead : m \in Arrays}),
           batches |-> Ascending({m.batch : m \in Arrays})]
====
