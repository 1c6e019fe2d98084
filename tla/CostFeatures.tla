---------------------------- MODULE CostFeatures -----------------------------
(***************************************************************************)
(* What the time presets (src/src/tsr/Presets.cpp) make an edge cost:      *)
(* each feature's Calculate, as a value and the warnings it adds on the    *)
(* way, and the graph in which the presets join them.                      *)
(*                                                                         *)
(* A double is a fraction [n, d]; Inf is the one with d = 0.  A world w is *)
(* what the features know (heights, tags and paths) and the preset.        *)
(***************************************************************************)
EXTENDS Integers, SequencesExt

Presets == {"time", "swimming", "restrict swimming"}

Fraction(n, d) == [n |-> n, d |-> d]
Inf  == Fraction(1, 0)
Zero(x) == x.n = 0
NotNegative(x) == x.n >= 0 /\ x.d >= 0

Feature(value, warnings) == [value |-> value, warnings |-> warnings]

\* Messages and their priorities.
Priority ==
    [NONE |-> 0, slight |-> 1, steep |-> 2, woodland |-> 3, potentialHeather |-> 7,
     heather |-> 10, marsh |-> 10, bog |-> 10, untraversable |-> 10,
     water |-> 11, noWaterData |-> 11]

-----------------------------------------------------------------------------
(* The features that look at the mesh and its tags.                         *)

Gradient(w, u, v) == Fraction(w.height[v] - w.height[u], w.run)
Distance(w, u, v) == Feature(Fraction(IF w.height[u] = w.height[v] THEN w.run ELSE w.slant, 1), <<>>)

\* The number of coefficients counts, but not the coefficients.
Upwards   == <<100, -270, -3483, 20063, -29206>>                \* hundredths
Downwards == <<100, -1, 7931, 116483, 462234, 573768>>

Pow(x, k) ==                                    \* std::pow(0, 0) is 1
    LET power[i \in 0 .. k] == IF i = 0 THEN 1 ELSE x * power[i - 1] IN power[k]
SolvePolynomial(x, coefficients) ==
    LET top == Len(coefficients) - 1
        terms == [i \in 1 .. top + 1 |-> Pow(x.n, i - 1) * Pow(x.d, top - i + 1)]
    IN  Fraction(FoldLeft(+, 0, terms), Pow(x.d, top))

Uncapped(y) == y                                \* a bug: the speed may be negative
Capped(y)   == IF y.n < 0 THEN Fraction(0, 1) ELSE y

GradientSpeed(w, u, v) ==
    LET x == Gradient(w, u, v)
        y == Capped(SolvePolynomial(x, IF x.n > 0 THEN Upwards ELSE Downwards))
    IN  Feature(y, IF y.n <= 0 THEN <<"untraversable">>
                   ELSE IF 2 * y.n < y.d THEN <<"steep">>
                   ELSE IF 10 * y.n < 8 * y.d THEN <<"slight">> ELSE <<>>)

\* CEHTerrainFeature::Calculate, in twentieths; other types and no tag are the default.
TerrainSpeed(type) ==
    CASE type = "WOODLAND"          -> Feature(Fraction(8, 20), <<"woodland">>)
      [] type = "ARABLE"            -> Feature(Fraction(14, 20), <<>>)
      [] type = "GRASSLAND"         -> Feature(Fraction(17, 20), <<>>)
      [] type = "HEATHER"           -> Feature(Fraction(0, 20), <<"heather">>)
      [] type = "HEATHER_GRASSLAND" -> Feature(Fraction(7, 20), <<"potentialHeather">>)
      [] type = "MARSH"             -> Feature(Fraction(0, 20), <<"marsh">>)
      [] type = "BOG"               -> Feature(Fraction(0, 20), <<"bog">>)
      [] type = "URBAN"             -> Feature(Fraction(20, 20), <<>>)
      [] OTHER                      -> Feature(Fraction(16, 20), <<>>)

\* BoolWaterFeature::Calculate: water that is not known is water.
WaterIfTagged(tag) ==                           \* a bug: only known water is
    IF tag = "WATER" THEN Feature(TRUE, <<"water">>) ELSE Feature(FALSE, <<>>)
Water(tag) ==
    CASE tag = "WATER" -> Feature(TRUE, <<"water">>)
      [] tag = "LAND"  -> Feature(FALSE, <<>>)
      [] OTHER         -> Feature(TRUE, <<"noWaterData">>)

Constant(n, d) == Feature(Fraction(n, d), <<>>)

Path(w, u, v) == Feature({u, v} \in w.paths, <<>>)

-----------------------------------------------------------------------------
(* The features that join others.                                           *)

Times(x, y) == IF x = Inf \/ y = Inf THEN Inf ELSE Fraction(x.n * y.n, x.d * y.d)

\* One dependency of a multiplier: after a zero, the rest is not calculated.
Multiply(total, dependency) ==
    LET type   == dependency[1]
        f      == dependency[2]
        warned == [total EXCEPT !.warnings = @ \o f.warnings]
        product == Times(total.value, f.value)
    IN  CASE total.done                       -> total
          [] ~total.done /\ type = "DOUBLE"   ->
                [warned EXCEPT !.value = product, !.done = Zero(product)]
          [] ~total.done /\ type = "BOOL"     ->
                IF f.value THEN warned
                ELSE [warned EXCEPT !.value = Fraction(0, 1), !.done = TRUE]

MultiplierFeature(dependencies) ==
    LET total == FoldLeft(Multiply, [value |-> Fraction(1, 1), warnings |-> <<>>, done |-> FALSE],
                          dependencies)
    IN  Feature(total.value, total.warnings)

ConditionalFeature(condition, a, b) ==
    LET chosen == IF condition.value THEN a ELSE b
    IN  Feature(chosen.value, condition.warnings \o chosen.warnings)

InverseBool(f)    == Feature(~f.value, f.warnings)
InverseFeature(f) == Feature(IF Zero(f.value) THEN Inf ELSE Fraction(f.value.d, f.value.n), f.warnings)

-----------------------------------------------------------------------------
(* The three presets: they differ in what water does.                       *)

WaterSpeed(w, f) ==
    CASE w.preset = "time" -> <<"BOOL", InverseBool(Water(w.water[f]))>>
      [] w.preset = "swimming" ->
            <<"DOUBLE", ConditionalFeature(Water(w.water[f]), Constant(89, 100), Constant(1, 1))>>
      [] w.preset = "restrict swimming" ->
            <<"DOUBLE", ConditionalFeature(Water(w.water[f]), Constant(1, 1000), Constant(1, 1))>>

Speed(w, f, u, v) ==
    MultiplierFeature(<<WaterSpeed(w, f), <<"DOUBLE", TerrainSpeed(w.terrain[f])>>,
                 <<"DOUBLE", GradientSpeed(w, u, v)>> >>)
PathSpeed(w, u, v) == MultiplierFeature(<< <<"DOUBLE", GradientSpeed(w, u, v)>> >>)

SpeedWithPathSwapped(w, f, u, v) ==             \* a bug: the dependencies swapped
    ConditionalFeature(Path(w, u, v), Speed(w, f, u, v), PathSpeed(w, u, v))
SpeedWithPath(w, f, u, v) ==
    ConditionalFeature(Path(w, u, v), PathSpeed(w, u, v), Speed(w, f, u, v))

Time(w, f, u, v) ==
    MultiplierFeature(<< <<"DOUBLE", Distance(w, u, v)>>,
                  <<"DOUBLE", InverseFeature(SpeedWithPath(w, f, u, v))>> >>)
=============================================================================
