------------------------------- MODULE Pricing -------------------------------
(***************************************************************************)
(* The pricing engine of internal/pricing/pricing_service.go: pure         *)
(* arithmetic over a request and the catalog rows its lookups found.       *)
(*                                                                         *)
(* Units: weight in kg, volume in tenths of a cubic metre, distance in km, *)
(* money in paise.  The code computes in float64 and rounds to the paisa   *)
(* with r2; here the sums are exact and Round is half up, so a tie can     *)
(* differ from the code's by one paisa.                                    *)
(***************************************************************************)
EXTENDS Integers, Sequences, FiniteSetsExt

CONSTANTS
    None,       \* id 0, an id that the client left out
    RoadKm,     \* [<<from, to>> |-> km]: the haversine distance times 1.3
    Located,    \* the cities whose coordinates are not 0, 0
    HighRisk    \* the goods categories with risk_level 'high'

(* math.Round(v*100)/100 of the fraction n/k of a paisa.                   *)
Round(n, k) == (2 * n + k) \div (2 * k)

Larger(a, b) == IF a >= b THEN a ELSE b

(* A mode the switch does not name is charged as road.                     *)
Modes == {"road", "rail", "air", "sea"}
-----------------------------------------------------------------------------
(* found is the set of rows that the First(...) calls returned: a row that *)
(* is missing, or whose SELECT failed, silently gives the default.         *)
DistanceKm(from, to, found) ==
    IF \/ from = None \/ to = None \/ from = to
       \/ ~({from, to} \subseteq found)
       \/ from \notin Located
    THEN 500
    ELSE RoadKm[<<from, to>>]

(* Air charges 166 kg per cubic metre if that is more than the weight; sea *)
(* charges by volume alone as soon as there is one; road and rail ignore   *)
(* the volume.                                                             *)
BaseFreight(mode, kg, vol) ==
    CASE mode = "air"  -> Larger(99900, Larger(18000 * kg, 298800 * vol))
      [] mode = "sea"  -> Larger(500000, IF vol > 0 THEN 100000 * vol
                                                    ELSE 1200 * kg)
      [] mode = "rail" -> Larger(50000, 200 * kg)
      [] OTHER         -> Larger(9900, 500 * kg)

DistanceCost(mode, km, kg) ==
    CASE mode \in {"air", "sea"} -> 0
      [] mode = "rail"           -> Round(18 * (kg * km), 10)
      [] OTHER                   -> Round(35 * (kg * km), 10)

(* Charged twice, for loading and for unloading.                           *)
LoadUnload(kg) == IF kg > 500 THEN 200 * kg ELSE 10000

Ceiling(n, k) == (n + k - 1) \div k

EstimateDays(mode, km) ==
    CASE mode = "air"  -> 2
      [] mode = "sea"  -> 30
      [] mode = "rail" -> Larger(1, Ceiling(km, 600))
      [] OTHER         -> Larger(1, Ceiling(km, 400))

RecommendVehicle(kg) ==
    CASE kg <= 20    -> "Bike"
      [] kg <= 750   -> "Tempo"
      [] kg <= 5000  -> "Truck (Small)"
      [] kg <= 12000 -> "Truck (Medium)"
      [] OTHER       -> "Truck (Large)"

Premium(req) ==
    IF req.insured /\ req.declared > 0
    THEN Larger(5000, Round(5 * req.declared, 1000)) ELSE 0

Gst(subtotal) == Round(18 * subtotal, 100)
-----------------------------------------------------------------------------
(* Estimate.  Handling is 5% of the freight before the express factor,     *)
(* which multiplies freight, distance and fuel and nothing else.           *)
Express(req, amount) == IF req.express THEN Round(3 * amount, 2) ELSE amount

RoadIfEmpty(mode) == IF mode = "" THEN "road" ELSE mode

Estimate(req, found) ==
    LET mode     == RoadIfEmpty(req.mode)
        km       == DistanceKm(req.from, req.to, found)
        freight  == BaseFreight(mode, req.kg, req.vol)
        risky    == req.goods \in HighRisk \cap found
        base     == Express(req, freight)
        distance == Express(req, DistanceCost(mode, km, req.kg))
        fuel     == Express(req, Round(8 * freight, 100))
        handling == IF risky \/ req.fragile THEN Round(5 * freight, 100) ELSE 0
        subtotal == base + distance + fuel + 2 * LoadUnload(req.kg)
                         + handling + Premium(req)
    IN  [ base     |-> base,
          distance |-> distance,
          fuel     |-> fuel,
          loading  |-> LoadUnload(req.kg),
          handling |-> handling,
          premium  |-> Premium(req),
          gst      |-> Gst(subtotal),
          total    |-> subtotal + Gst(subtotal),
          days     |-> EstimateDays(mode, km),
          vehicle  |-> IF req.vehicle \in found THEN req.vehicle
                                                ELSE RecommendVehicle(req.kg) ]

(* EstimateMultiModal.  A leg whose two cities lie at the same point has   *)
(* distance 0, which counts as 500 here and as 0 in Estimate.              *)
LegKm(leg, found) ==
    LET km == DistanceKm(leg.from, leg.to, found)
    IN  IF km = 0 THEN 500 ELSE km

LegCost(req, leg, found) ==
    BaseFreight(leg.mode, req.kg, req.vol)
        + DistanceCost(leg.mode, LegKm(leg, found), req.kg)

EstimateMultiModal(req, found) ==
    LET legs     == req.legs
        Cost(i)  == LegCost(req, legs[i], found)
        Days(i)  == EstimateDays(legs[i].mode, LegKm(legs[i], found))
        base     == MapThenSumSet(Cost, DOMAIN legs)
        fuel     == Round(8 * base, 100)
        subtotal == base + fuel + 2 * LoadUnload(req.kg) + Premium(req)
    IN  [ base     |-> base,
          distance |-> 0,
          fuel     |-> fuel,
          loading  |-> LoadUnload(req.kg),
          handling |-> 0,
          premium  |-> Premium(req),
          gst      |-> Gst(subtotal),
          total    |-> subtotal + Gst(subtotal),
          days     |-> MapThenSumSet(Days, DOMAIN legs),
          vehicle  |-> RecommendVehicle(req.kg) ]
=============================================================================
