---- MODULE MCPointForecast ----
(* PointForecast asked four families of questions, each of which varies something else. *)
EXTENDS PointForecast

Weather(w10m, t2m, msl, tcwv) == [w10m |-> w10m, t2m |-> t2m, msl |-> msl, tcwv |-> tcwv]
Calm == Weather(3000, 290150, 101300000, 20000)

Small(cells) == [ndim |-> 5, variables |-> 5, rows |-> 3, columns |-> 4,
                 cells |-> cells, slope |-> 1, holes |-> {}]
Member(lead, batch, array) == [kind |-> "array", lead |-> lead, batch |-> batch, array |-> array]
Whole(entries) == [entries |-> entries, upTo |-> Len(entries), ends |-> "whole"]
Ask(provider, archive, latitude, longitude) ==
  [provider |-> provider, archive |-> archive, latitude |-> latitude, longitude |-> longitude]

\* The mock, every 15 degrees
Mocks == {Ask("mock", Whole(<<>>), 15000 * i, 15000 * j) : i \in -6..6, j \in -12..12}

\* One array of each shape, and locations on, next to and between its grid points
Shapes ==
  [ndim : {3, 4, 5}, variables : {3, 5}, rows : {0, 1, 3}, columns : {0, 1, 4},
   cells : {Calm}, slope : {1}, holes : {{}, {[row |-> 1, column |-> 0]}}]
  \cup [ndim : {4}, variables : {5}, rows : {721}, columns : {1440}, cells : {Calm},
        slope : {1}, holes : {{}}]
Latitudes == {-90000, -45001, -44999, 0, 44999, 45001, 89876, 90000}
Longitudes == {-180000, -45001, -44999, -124, -1, 0, 1, 134999, 135001, 180000}
Grids == {Ask("fourcastnet", Whole(<<Member(0, 0, a)>>), latitude, longitude) :
            a \in Shapes, latitude \in Latitudes, longitude \in Longitudes}

\* Archives of up to three entries, each with values of its own, and cut off ones
EntryKinds == {"foreign", "damaged", "directory", "m00", "m60", "m61", "m121"}
Named(kind, cells) ==
  CASE kind = "m00" -> Member(0, 0, Small(cells))
    [] kind = "m60" -> Member(6, 0, Small(cells))
    [] kind = "m61" -> Member(6, 1, Small(cells))
    [] kind = "m121" -> Member(120, 1, Small(cells))
    [] OTHER -> [kind |-> kind]
EntriesOf(kinds) == [i \in DOMAIN kinds |-> Named(kinds[i], [Calm EXCEPT !.tcwv = 20000 + 2000 * i])]
Endings(entries) ==
  {Whole(entries), [Whole(entries) EXCEPT !.ends = "inside"],
   [Whole(entries) EXCEPT !.ends = "compressed"]}
  \cup {[entries |-> entries, upTo |-> n, ends |-> "between"] : n \in 0..Len(entries)}
Archives == UNION {Endings(EntriesOf(kinds)) : kinds \in UNION {[1..n -> EntryKinds] : n \in 0..3}}
Selections == {Ask(provider, archive, 10000, -1000) :
                 provider \in {"fourcastnet", "report"}, archive \in Archives}

\* Weather on both sides of every threshold, and beyond every limit
Weathers ==
  {Ask("fourcastnet", Whole(<<Member(0, 0, Small(Weather(w10m, t2m, msl, tcwv))),
                              Member(lead, 0, Small(Calm))>>), 90000, 0) :
     w10m \in {-1000, 0, 7940, 7960, 8960, 15000, 60000},
     t2m \in {180000, 273150, 288160, 330000},
     msl \in {90000000, 99500000, 100640000, 101325000, 105000000},
     tcwv \in {0, 10000, 30000, 49300, 49330, 90000}, lead \in {6, 48, 240}}

MCQuestions == Mocks \cup Grids \cup Selections \cup Weathers
====
