------------------------------ MODULE MCBackend ------------------------------
(***************************************************************************)
(* A small instance of Backend for TLC.  MCWorkloads keeps the operations  *)
(* of one behaviour to those that share data, so that the instance is a    *)
(* sum of small ones and not their product.                                *)
(***************************************************************************)
EXTENDS Backend

Workload(ops, calls, gaps) == [ops |-> ops, calls |-> calls, gaps |-> gaps]

MCWorkloads ==
    { Workload({"quote", "booking"}, 2, TRUE),
      Workload({"single", "legs"}, 2, TRUE),
      Workload({"booking", "cancel"}, 3, FALSE),
      Workload({"booking", "list"}, 3, FALSE),
      Workload({"booking", "analytics"}, 3, FALSE),
      Workload({"dashboard", "write"}, 3, FALSE),
      Workload({"fleet", "write"}, 3, FALSE),
      Workload({"getProfile", "updateProfile"}, 3, FALSE) }

MCPageAsks == { [page |-> 2, limit |-> 1], [page |-> 0, limit |-> 0] }

(* A parcel from Mumbai to Delhi, 1,149 km as the crow flies, of a        *)
(* category with a high risk; and the same, fragile, insured and at the    *)
(* weight where loading is no longer charged at a flat rate.               *)
Parcel ==
    [ mode |-> "", kg |-> 500, vol |-> 2, from |-> "Mumbai", to |-> "Delhi",
      goods |-> "Medicine", vehicle |-> "Tempo", declared |-> 2000000,
      insured |-> FALSE, fragile |-> FALSE, express |-> FALSE ]

(* Cargo between two ports whose ids are those of Mumbai and Delhi.        *)
Cargo1 == [Parcel EXCEPT !.kg = 600, !.vol = 4, !.from = "INJNP", !.to = "AEJEA",
                         !.goods = None, !.insured = TRUE]

Flight == [Parcel EXCEPT !.mode = "air", !.goods = None]

(* One leg by air, at the same two weights, and one by rail, which the     *)
(* journey prices by distance and the category's handling.                 *)
MCForms ==
    [ courier   |-> {Parcel, [Parcel EXCEPT !.kg = 501, !.fragile = TRUE, !.insured = TRUE]},
      logistics |-> {Cargo1},
      pricing   |-> {Flight, [Flight EXCEPT !.kg = 501], [Parcel EXCEPT !.mode = "rail"]} ]

MCRoadKm == [a, b \in {"Mumbai", "Delhi"} |-> IF a = b THEN 0 ELSE 1494]

MCCityWithId == [p \in {"INJNP", "AEJEA"} |-> IF p = "INJNP" THEN "Mumbai" ELSE "Delhi"]
=============================================================================
