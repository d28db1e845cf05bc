---- MODULE MockForecast ----
(***************************************************************************)
(* MockForecastProvider.get_point_forecast, for coordinates in whole       *)
(* degrees.  math.sin and math.cos are a rational approximation that is    *)
(* within two thousandths of them.                                         *)
(***************************************************************************)
EXTENDS ForecastRules

\* sin of a whole number of degrees
Sin(degrees) ==
  LET x == degrees % 360
      half == x % 180
      sine == HalfEven(4000 * half * (180 - half), 40500 - half * (180 - half))
  IN IF x < 180 THEN sine ELSE -sine
Cos(degrees) == Sin(degrees + 90)

MOCK_LEAD_HOURS == <<0, 6, 12, 24, 36, 48, 72>>

MockStep(lead, lat, lon, temperature, wind, humidity) ==
  LET longitudeWave == Cos(lon - lead * 4)
      humid == OneDecimal(Clamp(25000, 96000, humidity + longitudeWave * 7), 1)
      rain == OneDecimal(Clamp(3000, 92000,
                               16000 + ((humid - 55000) * 75) \div 100 + lead * 180), 1)
  IN Step(lead, OneDecimal(temperature * 10 + Sin(lat + lead * 7) * 32, 10),
          OneDecimal(wind * 10 + Abs(longitudeWave) * 18, 10), humid, rain,
          OneDecimal((1013200 + longitudeWave * 5) * 1000 - rain * 35, 1000),
          TwoDecimals(Max({6200, 9500 - lead * 38}), 10))

\* The metrics are the values the steps start from, not those of the first step.
MockForecast(lat, lon) ==
  LET latitudeFactor == Sin(lat)
      longitudeFactor == Cos(lon)
      temperature == OneDecimal(18000 + 10 * latitudeFactor + 2 * longitudeFactor, 1)
      wind == OneDecimal(4000000 + Abs(latitudeFactor * longitudeFactor) * 8, 1000)
      humidity == OneDecimal(55000 + Abs(longitudeFactor) * 25, 1)
      timeline == [i \in DOMAIN MOCK_LEAD_HOURS |->
                     MockStep(MOCK_LEAD_HOURS[i], lat, lon, temperature, wind, humidity)]
  IN [status |-> "served", timeline |-> timeline, signals |-> Signals(timeline),
      headline |-> timeline[1].condition,
      metrics |-> [temperature |-> temperature, wind |-> wind, humidity |-> humidity],
      window |-> [start |-> 0, end |-> MOCK_LEAD_HOURS[Len(MOCK_LEAD_HOURS)],
                  leads |-> MOCK_LEAD_HOURS]]
====
