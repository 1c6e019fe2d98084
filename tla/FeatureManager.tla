--------------------------- MODULE FeatureManager ---------------------------
(***************************************************************************)
(* FeatureManager (src/src/tsr/FeatureManager.cpp): the cost function is a *)
(* graph of features, entered at the output feature.  Evaluating it        *)
(* recurses along the dependencies, so the graph is checked for cycles     *)
(* when the output is set.  The check follows feature_id, of which two     *)
(* features may have the same; the evaluation follows the objects.         *)
(* A vector of dependencies is a set here: neither the order nor a repeat  *)
(* of one changes whether there is a cycle.                                *)
(***************************************************************************)
EXTENDS Naturals, FiniteSets

CONSTANTS
    Features,   \* the feature objects
    Ids,        \* the strings used as feature_id
    Nil         \* nullptr

ASSUME NilAssumption == Nil \notin Features
ASSUME FeaturesAssumption == IsFiniteSet(Features)

VARIABLES
    id,         \* the feature_id of each feature, chosen when it is made
    deps,       \* FeatureBase::dependencies
    output,     \* outputFeature
    settled,    \* no dependency was added since the output was last set
    outcome     \* how the last call ended

vars == <<id, deps, output, settled, outcome>>

\* HasDependencyCycle(feature, path): does a dependency, followed down every
\* branch, bear an id that is on the path already?  A call is <<feature, path>>.
Calls == Features \X SUBSET Ids

HasCycleBelowFlat(f, seen) ==           \* a bug: the branches are not followed
    \E dep \in deps[f] : id[dep] \in seen \/ \E next \in deps[dep] : id[next] \in seen
HasCycleBelowSiblings(f, seen) ==       \* a bug: the path holds all dependencies at once
    LET below[c \in Calls] ==
          \E dep \in deps[c[1]] :
              id[dep] \in c[2] \/ below[<<dep, c[2] \cup {id[d] : d \in deps[c[1]]}>>]
    IN  below[<<f, seen>>]
HasCycleBelow(f, seen) ==
    LET below[c \in Calls] ==
          \E dep \in deps[c[1]] : id[dep] \in c[2] \/ below[<<dep, c[2] \cup {id[dep]}>>]
    IN  below[<<f, seen>>]

HasDependencyCycle(f) == HasCycleBelow(f, {id[f]})

\* The features whose evaluation is bound to return, by the depth of the recursion:
\* those without dependencies at once, the others when all of theirs do.
Evaluable ==
    LET returns[depth \in 0 .. Cardinality(Features)] ==
          IF depth = 0 THEN {}
          ELSE {f \in Features : deps[f] \subseteq returns[depth - 1]}
    IN  returns[Cardinality(Features)]

-----------------------------------------------------------------------------
Init ==
    /\ id \in [Features -> Ids]
    /\ deps = [f \in Features |-> {}]
    /\ output = Nil
    /\ settled = FALSE
    /\ outcome = "none"

\* FeatureBase::AddDependency: nothing is checked, at any time.
AddDependencyNull(f, g) ==              \* a bug: a failed cast is pushed as nullptr
    /\ g \notin deps[f]
    /\ deps' = [deps EXCEPT ![f] = @ \cup {Nil}]
    /\ settled' = FALSE
    /\ outcome' = "added"
    /\ UNCHANGED <<id, output>>
AddDependency(f, g) ==
    /\ g \notin deps[f]
    /\ deps' = [deps EXCEPT ![f] = @ \cup {g}]
    /\ settled' = FALSE
    /\ outcome' = "added"
    /\ UNCHANGED <<id, output>>

SetOutputFeatureKept(f) ==              \* a bug: not reset to nullptr before the throw
    /\ output' = f
    /\ outcome' = IF HasDependencyCycle(f) THEN "cycle" ELSE "set"
    /\ settled' = TRUE
    /\ UNCHANGED <<id, deps>>
SetOutputFeature(f) ==
    /\ IF HasDependencyCycle(f)
         THEN output' = Nil /\ outcome' = "cycle"
         ELSE output' = f /\ outcome' = "set"
    /\ settled' = TRUE
    /\ UNCHANGED <<id, deps>>

\* A null feature has its feature_id read all the same.
SetNoOutput ==
    /\ output' = Nil /\ outcome' = "null_dereference"
    /\ settled' = TRUE
    /\ UNCHANGED <<id, deps>>

\* The output feature's Calculate, and through it those of the features below it.  A
\* null output is dereferenced; a cycle is followed until the stack is used up,
\* unless a ConditionalFeature takes the other branch or a product is 0 before.
Calculate ==
    /\ outcome' \in CASE output = Nil                          -> {"null_dereference"}
                      [] output # Nil /\ output \in Evaluable    -> {"cost"}
                      [] output # Nil /\ output \notin Evaluable -> {"cost", "stack_overflow"}
    /\ UNCHANGED <<id, deps, output, settled>>

\* Nothing follows a crash.
Next ==
    /\ outcome \notin {"null_dereference", "stack_overflow"}
    /\ \/ \E f, g \in Features : AddDependency(f, g)
       \/ \E f \in Features : SetOutputFeature(f)
       \/ SetNoOutput
       \/ Calculate

Spec == Init /\ [][Next]_vars

-----------------------------------------------------------------------------
(* Properties.                                                              *)

\* Where one call of a feature may lead in any number of calls.
Below(f) ==
    LET reached[steps \in 0 .. Cardinality(Features)] ==
          IF steps = 0 THEN deps[f]
          ELSE reached[steps - 1] \cup UNION {deps[g] : g \in reached[steps - 1]}
    IN  reached[Cardinality(Features)]

Acyclic(f) == \A g \in Below(f) \cup {f} : g \notin Below(g)

TypeOK ==
    /\ id \in [Features -> Ids]
    /\ deps \in [Features -> SUBSET Features]
    /\ output \in Features \cup {Nil}
    /\ settled \in BOOLEAN
    /\ outcome \in {"none", "added", "set", "cycle", "cost", "null_dereference", "stack_overflow"}

\* An output feature that was accepted is evaluated in finitely many calls as long
\* as no dependency is added: no cycle of objects slips through a check that looks
\* at names (FeatureManager.cpp:30-68).
AcceptedOutputsReturn ==
    settled /\ output # Nil => Acyclic(output) /\ output \in Evaluable

\* The stack only overflows in the evaluation of a graph that was changed after
\* it had been accepted (FeatureManager.cpp:59-83, Feature.cpp:12-14).
OverflowsOnlyIfChanged == outcome = "stack_overflow" => ~settled /\ output # Nil

\* With names that are unique ("Feature unique identifier", Feature.hpp:19) no
\* graph without a cycle is refused: a diamond, in which two branches share a
\* dependency, is none (FeatureManager.cpp:46-51).
RefusesOnlyCycles ==
    [][\A f \in Features :
          (\A g, h \in Features : id[g] = id[h] => g = h) /\ Acyclic(f) /\ SetOutputFeature(f)
              => outcome' = "set"]_vars
=============================================================================
