-------------------------- MODULE TinPipelineProofs --------------------------
(***************************************************************************)
(* Proofs about TinPipeline for any number of processes and chunks, and    *)
(* for any number of calls, exceptions and kills: type correctness, that   *)
(* no body outlives its call and that only a kill leaves a torn file; for  *)
(* one call in a process, that every required chunk is in what it returns. *)
(***************************************************************************)
EXTENDS TinPipeline, TLAPS

-----------------------------------------------------------------------------
(* Type correctness.  The bound on the two lists is not inductive alone:    *)
(* the handler moves the head of a list that must not be empty.             *)

TypeInv ==
    /\ TypeOK
    /\ \A p \in Procs : pc[p] = "discarding" => cached[p] # <<>>

LEMMA TypeInit ==
    ASSUME Init
    PROVE  TypeInv
<1>1. \A p \in Procs : Required[p] \in Seq(Chunks)
    BY RequiredAssumption
<1> QED
    BY <1>1, BoundsAssumption
    DEF Init, TypeInv, TypeOK, Fresh, Empty, Stages

\* No element comes twice.
Distinct(s) == \A i, j \in DOMAIN s : s[i] = s[j] => i = j

LEMMA HeadAndTail ==
    ASSUME NEW S, NEW s \in Seq(S), s # <<>>
    PROVE  /\ Head(s) \in S
           /\ Tail(s) \in Seq(S)
           /\ Len(Tail(s)) = Len(s) - 1
           /\ Range(s) = {Head(s)} \cup Range(Tail(s))
           /\ Distinct(s) => Distinct(Tail(s)) /\ Head(s) \notin Range(Tail(s))
<1>1. Len(s) \in Nat \ {0} /\ DOMAIN s = 1 .. Len(s)
    OBVIOUS
<1>2. \A i \in 1 .. Len(s) - 1 : Tail(s)[i] = s[i + 1]
    OBVIOUS
<1>3. DOMAIN Tail(s) = 1 .. Len(s) - 1
    OBVIOUS
<1>4. Head(s) = s[1]
    OBVIOUS
<1>5. \A i \in DOMAIN Tail(s) : i + 1 \in DOMAIN s /\ i + 1 # 1 /\ Tail(s)[i] = s[i + 1]
    BY <1>1, <1>2, <1>3
<1>6. \A i \in DOMAIN s : i # 1 => i - 1 \in DOMAIN Tail(s) /\ Tail(s)[i - 1] = s[i]
    BY <1>1, <1>2, <1>3
<1>7. Range(s) = {Head(s)} \cup Range(Tail(s))
    <2>1. \A i \in DOMAIN s : s[i] \in {Head(s)} \cup Range(Tail(s))
        BY <1>4, <1>6 DEF Range
    <2>2. Head(s) \in Range(s) /\ \A i \in DOMAIN Tail(s) : Tail(s)[i] \in Range(s)
        BY <1>1, <1>4, <1>5 DEF Range
    <2> QED
        BY <2>1, <2>2 DEF Range
<1>8. ASSUME Distinct(s)
      PROVE  Distinct(Tail(s)) /\ Head(s) \notin Range(Tail(s))
    <2>1. \A i, j \in DOMAIN Tail(s) : Tail(s)[i] = Tail(s)[j] => i = j
        BY <1>3, <1>5, <1>8 DEF Distinct
    <2>2. \A i \in DOMAIN Tail(s) : Tail(s)[i] # Head(s)
        BY <1>1, <1>4, <1>5, <1>8 DEF Distinct
    <2> QED
        BY <2>1, <2>2 DEF Distinct, Range
<1> QED
    BY <1>1, <1>7, <1>8

LEMMA Appended ==
    ASSUME NEW S, NEW s \in Seq(S), NEW x \in S
    PROVE  /\ Append(s, x) \in Seq(S)
           /\ Len(Append(s, x)) = Len(s) + 1
           /\ Range(Append(s, x)) = Range(s) \cup {x}
           /\ \A i \in DOMAIN s : i \in DOMAIN Append(s, x) /\ Append(s, x)[i] = s[i]
           /\ Distinct(s) /\ x \notin Range(s) => Distinct(Append(s, x))
<1>1. DOMAIN Append(s, x) = (DOMAIN s) \cup {Len(s) + 1}
    OBVIOUS
<1>2. /\ Append(s, x)[Len(s) + 1] = x
      /\ \A i \in DOMAIN s : Append(s, x)[i] = s[i]
    OBVIOUS
<1>3. Range(Append(s, x)) = Range(s) \cup {x}
    BY <1>1, <1>2 DEF Range
<1>4. ASSUME Distinct(s), x \notin Range(s)
      PROVE  Distinct(Append(s, x))
    <2>1. \A i \in DOMAIN s : s[i] # x
        BY <1>4 DEF Range
    <2> QED
        BY <1>1, <1>2, <1>4, <2>1 DEF Distinct
<1> QED
    BY <1>1, <1>2, <1>3, <1>4

\* What Load does, without the cases of the file it reads.
LEMMA LoadFacts ==
    ASSUME TypeOK, NEW p \in Procs, Load(p)
    PROVE  /\ cached[p] # <<>>
           /\ \/ /\ pc' = [pc EXCEPT ![p] = "discarding"]
                 /\ UNCHANGED <<cached, merged>>
              \/ /\ \E outcome \in {"whole", "partial"} :
                       merged' = [merged EXCEPT ![p][Head(cached[p])] = outcome]
                 /\ cached' = [cached EXCEPT ![p] = Tail(@)]
                 /\ UNCHANGED pc
<1> DEFINE c == Head(cached[p])
           outcomes == CASE disk[c] = "whole"  -> {"whole"}
                         [] disk[c] = "torn"   -> TornReads
                         [] disk[c] = "absent" -> {"throws"}
<1>1. cached[p] # <<>> /\ cached[p] \in Seq(Chunks)
    BY DEF Load, TypeOK
<1>2. disk[c] \in {"absent", "torn", "whole"}
    BY <1>1, HeadAndTail DEF TypeOK
<1>3. outcomes \subseteq {"whole", "partial", "throws"}
    <2>1. CASE disk[c] = "whole"
        BY <2>1
    <2>2. CASE disk[c] = "torn"
        BY <2>2, TornReadsAssumption
    <2>3. CASE disk[c] = "absent"
        BY <2>3
    <2> QED
        BY <1>2, <2>1, <2>2, <2>3
<1>4. \E outcome \in outcomes :
        IF outcome = "throws"
          THEN /\ pc' = [pc EXCEPT ![p] = "discarding"]
               /\ UNCHANGED <<cached, merged>>
          ELSE /\ merged' = [merged EXCEPT ![p][c] = outcome]
               /\ cached' = [cached EXCEPT ![p] = Tail(@)]
               /\ UNCHANGED pc
    BY DEF Load
<1> HIDE DEF outcomes
<1> QED
    BY <1>1, <1>3, <1>4

\* The main thread: the two lists together never hold more than was looked up.
LEMMA TypeMain ==
    ASSUME TypeInv, NEW p \in Procs, Main(p)
    PROVE  TypeInv'
<1> USE DEF TypeInv, TypeOK
<1>0. Required[p] \in Seq(Chunks)
    BY RequiredAssumption
<1>1. CASE Call(p)
    BY <1>1, BoundsAssumption DEF Call, Fresh, Empty, Stages
<1>2. CASE LookUp(p)
    <2> DEFINE c == Required[p][listed[p] + 1]
    <2>1. c \in Chunks
        BY <1>0, <1>2 DEF LookUp
    <2>2. /\ Append(cached[p], c) \in Seq(Chunks) /\ Len(Append(cached[p], c)) = Len(cached[p]) + 1
          /\ Append(api[p], c) \in Seq(Chunks) /\ Len(Append(api[p], c)) = Len(api[p]) + 1
        BY <2>1, Appended
    <2> HIDE DEF c
    <2>3. /\ listed' = [listed EXCEPT ![p] = @ + 1] /\ listed[p] + 1 <= Len(Required[p])
          /\ \/ cached' = [cached EXCEPT ![p] = Append(@, c)] /\ api' = api
             \/ api' = [api EXCEPT ![p] = Append(@, c)] /\ cached' = cached
        BY <1>0, <1>2 DEF LookUp, c
    <2>4. /\ cached' \in [Procs -> Seq(Chunks)] /\ api' \in [Procs -> Seq(Chunks)]
          /\ Len(cached'[p]) + Len(api'[p]) = Len(cached[p]) + Len(api[p]) + 1
          /\ \A q \in Procs \ {p} : cached'[q] = cached[q] /\ api'[q] = api[q]
        <3> DEFINE longerCached == Append(cached[p], c)
                   longerApi    == Append(api[p], c)
        <3>1. longerCached \in Seq(Chunks) /\ Len(longerCached) = Len(cached[p]) + 1
              /\ longerApi \in Seq(Chunks) /\ Len(longerApi) = Len(api[p]) + 1
            BY <2>2
        <3>2. \/ cached' = [cached EXCEPT ![p] = longerCached] /\ api' = api
              \/ api' = [api EXCEPT ![p] = longerApi] /\ cached' = cached
            BY <2>3
        <3> HIDE DEF longerCached, longerApi
        <3>3. /\ cached' \in [Procs -> Seq(Chunks)] /\ api' \in [Procs -> Seq(Chunks)]
              /\ \A q \in Procs \ {p} : cached'[q] = cached[q] /\ api'[q] = api[q]
            BY <3>1, <3>2
        <3> DEFINE m == Len(cached[p])
                   n == Len(api[p])
                   k == Len(cached'[p])
                   l == Len(api'[p])
        <3>4. (k = m + 1 /\ l = n) \/ (k = m /\ l = n + 1)
            BY <3>1, <3>2
        <3>5. m \in Nat /\ n \in Nat
            OBVIOUS
        <3> HIDE DEF k, l, m, n, TypeInv, TypeOK
        <3>6. k + l = m + n + 1
            BY <3>4, <3>5
        <3> QED
            BY <3>3, <3>6 DEF k, l, m, n
    <2>5. ASSUME NEW q \in Procs
          PROVE  /\ Len(cached'[q]) + Len(api'[q]) <= listed'[q]
                 /\ listed'[q] \in Nat /\ listed'[q] <= Len(Required[q])
        <3> DEFINE old == Len(cached[q]) + Len(api[q])
                   new == Len(cached'[q]) + Len(api'[q])
        <3>1. old \in Nat /\ old <= listed[q] /\ listed[q] \in Nat
              /\ listed[q] <= Len(Required[q])
            OBVIOUS
        <3>2. CASE q = p
            <4>1. new = old + 1 /\ listed'[q] = listed[q] + 1 /\ listed'[q] <= Len(Required[q])
                BY <2>3, <2>4, <3>2
            <4> HIDE DEF old, new, TypeInv, TypeOK
            <4>2. new <= listed'[q] /\ listed'[q] \in Nat
                BY <3>1, <4>1
            <4> QED
                BY <4>1, <4>2 DEF new
        <3>3. CASE q # p
            BY <2>3, <2>4, <3>1, <3>3
        <3> QED
            BY <3>2, <3>3
    <2> QED
        BY <1>2, <2>3, <2>4, <2>5 DEF LookUp
<1>3. CASE LookedUp(p)
    BY <1>3 DEF LookedUp
<1>4. CASE Load(p)
    <2>1. Head(cached[p]) \in Chunks /\ Tail(cached[p]) \in Seq(Chunks)
          /\ Len(Tail(cached[p])) = Len(cached[p]) - 1
        BY <1>4, LoadFacts, HeadAndTail
    <2>2. CASE pc' = [pc EXCEPT ![p] = "discarding"] /\ UNCHANGED <<cached, merged>>
        BY <1>4, <2>2, LoadFacts DEF Load
    <2>3. ASSUME NEW outcome \in {"whole", "partial"},
                 merged' = [merged EXCEPT ![p][Head(cached[p])] = outcome],
                 cached' = [cached EXCEPT ![p] = Tail(@)], UNCHANGED pc
          PROVE  TypeInv'
        <3>1. merged' \in [Procs -> [Chunks -> {"nothing", "partial", "whole"}]]
            BY <2>1, <2>3
        <3>2. cached' \in [Procs -> Seq(Chunks)]
            BY <2>1, <2>3
        <3>3. \A q \in Procs : Len(cached'[q]) + Len(api[q]) <= listed[q]
            BY <2>1, <2>3
        <3>4. \A q \in Procs : pc[q] # "discarding" \/ q # p
            BY <1>4 DEF Load
        <3> QED
            BY <1>4, <2>3, <3>1, <3>2, <3>3, <3>4 DEF Load
    <2> QED
        BY <1>4, <2>2, <2>3, LoadFacts
<1>5. CASE Discard(p)
    <2> DEFINE c == Head(cached[p])
    <2>1. c \in Chunks /\ Tail(cached[p]) \in Seq(Chunks)
          /\ Len(Tail(cached[p])) = Len(cached[p]) - 1
        BY <1>5, HeadAndTail DEF Discard
    <2>2. Append(api[p], c) \in Seq(Chunks) /\ Len(Append(api[p], c)) = Len(api[p]) + 1
        BY <2>1, Appended
    <2> QED
        BY <1>5, <2>1, <2>2 DEF Discard
<1>6. CASE Loaded(p)
    BY <1>6 DEF Loaded
<1>7. CASE Emit(p)
    BY <1>7, <1>0 DEF Emit, GoesTo, Stages, Running
<1>8. CASE Finish(p)
    BY <1>8 DEF Finish
<1> QED
    BY <1>1, <1>2, <1>3, <1>4, <1>5, <1>6, <1>7, <1>8 DEF Main

\* The bodies of the flow graph.
LEMMA TypeBody ==
    ASSUME TypeInv, NEW p \in Procs, NEW c \in Chunks, Body(p, c) \/ Throw(p, c)
    PROVE  TypeInv'
<1> USE DEF TypeInv, TypeOK, GoesTo, Stages, Running, Waiting
<1>1. CASE Prepare(p, c)
    BY <1>1 DEF Prepare
<1>2. CASE BeginWrite(p, c)
    BY <1>2 DEF BeginWrite
<1>3. CASE EndWrite(p, c)
    BY <1>3 DEF EndWrite
<1>4. CASE SkipWrite(p, c)
    BY <1>4 DEF SkipWrite
<1>5. CASE BeginMerge(p, c)
    BY <1>5 DEF BeginMerge
<1>6. CASE EndMerge(p, c)
    BY <1>6 DEF EndMerge
<1>7. CASE Throw(p, c)
    BY <1>7, BoundsAssumption DEF Throw
<1> QED
    BY <1>1, <1>2, <1>3, <1>4, <1>5, <1>6, <1>7 DEF Body

\* A step leaves every variable in its type, and the handler always has a chunk
\* to discard (DelaunayTriangulation.cpp:302-339).
LEMMA TypeStep ==
    ASSUME TypeInv, [Next]_vars
    PROVE  TypeInv'
<1>1. ASSUME NEW p \in Procs, Crash(p) \/ Rerun(p)
      PROVE  TypeInv'
    <2> USE DEF TypeInv, TypeOK, Reset, Fresh, Empty, Stages
    <2>1. CASE Crash(p)
        BY <2>1, BoundsAssumption DEF Crash
    <2>2. CASE Rerun(p)
        BY <2>2, BoundsAssumption DEF Rerun
    <2> QED
        BY <1>1, <2>1, <2>2
<1>2. CASE UNCHANGED vars
    BY <1>2 DEF TypeInv, TypeOK, vars, local
<1> QED
    BY <1>1, <1>2, TypeMain, TypeBody DEF Next

\* Type correctness for any number of processes, chunks, calls, failures and kills.
THEOREM TypeCorrect ==
    Spec => []TypeOK
<1>1. TypeInv => TypeOK
    BY DEF TypeInv
<1> QED
    BY <1>1, TypeInit, TypeStep, PTL DEF Spec

-----------------------------------------------------------------------------
(* Where a chunk that was looked up is: in one of the lists, once, or       *)
(* merged.  A task that has begun was emitted, so the chunk that is emitted *)
(* next has no task yet.                                                    *)

Listed(p)    == {Required[p][i] : i \in 1 .. listed[p]}
Emitted(p)   == {api[p][j] : j \in 1 .. count[p] \cap DOMAIN api[p]}
Something(p) == {c \in Chunks : merged[p][c] # "nothing"}

ListsAt(p) ==
    /\ Distinct(api[p]) /\ Distinct(cached[p])
    /\ Range(api[p]) \cap Range(cached[p]) = {}
    /\ Range(api[p]) \cup Range(cached[p]) \subseteq Listed(p)
    /\ Listed(p) \subseteq Range(api[p]) \cup Range(cached[p]) \cup Something(p)
    /\ \A c \in Chunks : task[p][c] # "outside" => c \in Emitted(p)

ListsInv == \A p \in Procs : ListsAt(p)

\* A step that leaves a process's lists, counter, tasks and terrain alone.
LEMMA ListsElsewhere ==
    ASSUME ListsInv, NEW q \in Procs,
           listed'[q] = listed[q], cached'[q] = cached[q], api'[q] = api[q],
           count'[q] = count[q], task'[q] = task[q], merged'[q] = merged[q]
    PROVE  ListsAt(q)'
BY DEF ListsInv, ListsAt, Listed, Emitted, Something

\* A process that starts, or starts anew.
LEMMA ListsEmpty ==
    ASSUME NEW q \in Procs, listed'[q] = 0, cached'[q] = <<>>, api'[q] = <<>>,
           task'[q] = Fresh(q)
    PROVE  ListsAt(q)'
<1>1. Range(<<>>) = {} /\ Distinct(<<>>)
    BY DEF Range, Distinct
<1>2. Listed(q)' = {}
    BY DEF Listed
<1> QED
    BY <1>1, <1>2 DEF ListsAt, Fresh

LEMMA ListsInit ==
    ASSUME Init
    PROVE  ListsInv
<1>1. Range(<<>>) = {} /\ Distinct(<<>>)
    BY DEF Range, Distinct
<1>2. ASSUME NEW p \in Procs
      PROVE  ListsAt(p)
    <2>1. listed[p] = 0 /\ cached[p] = <<>> /\ api[p] = <<>> /\ task[p] = Fresh(p)
        BY DEF Init
    <2>2. Listed(p) = {}
        BY <2>1 DEF Listed
    <2> QED
        BY <1>1, <2>1, <2>2 DEF ListsAt, Fresh
<1> QED
    BY <1>2 DEF ListsInv

\* The chunk looked up next is in neither list: none is required twice.
LEMMA ListsLookUp ==
    ASSUME TypeInv, ListsInv, NEW p \in Procs, LookUp(p)
    PROVE  ListsAt(p)'
<1> DEFINE c == Required[p][listed[p] + 1]
<1>1. /\ Required[p] \in Seq(Chunks) /\ Distinct(Required[p])
      /\ listed[p] \in Nat /\ listed[p] < Len(Required[p])
      /\ cached[p] \in Seq(Chunks) /\ api[p] \in Seq(Chunks)
    BY RequiredAssumption DEF LookUp, TypeInv, TypeOK, Distinct
<1>2. c \in Chunks /\ c \notin Listed(p)
    BY <1>1 DEF Distinct, Listed
<1>3. Listed(p)' = Listed(p) \cup {c}
    <2>1. listed'[p] = listed[p] + 1
        BY DEF LookUp, TypeInv, TypeOK
    <2>2. 1 .. listed[p] + 1 = (1 .. listed[p]) \cup {listed[p] + 1}
        BY <1>1
    <2> QED
        BY <2>1, <2>2 DEF Listed
<1>4. c \notin Range(api[p]) /\ c \notin Range(cached[p])
    BY <1>2 DEF ListsInv, ListsAt
<1>5. /\ UNCHANGED <<count, task, merged>>
      /\ \/ cached'[p] = Append(cached[p], c) /\ api'[p] = api[p]
         \/ api'[p] = Append(api[p], c) /\ cached'[p] = cached[p]
    BY DEF LookUp, TypeInv, TypeOK
<1> HIDE DEF c
<1>6. /\ Range(Append(cached[p], c)) = Range(cached[p]) \cup {c} /\ Distinct(Append(cached[p], c))
      /\ Range(Append(api[p], c)) = Range(api[p]) \cup {c} /\ Distinct(Append(api[p], c))
      /\ \A i \in DOMAIN api[p] :
            i \in DOMAIN Append(api[p], c) /\ Append(api[p], c)[i] = api[p][i]
    <2>1. Distinct(cached[p]) /\ Distinct(api[p])
        BY DEF ListsInv, ListsAt
    <2> QED
        BY <1>1, <1>2, <1>4, <2>1, Appended
<1>7. Emitted(p) \subseteq Emitted(p)' /\ Something(p)' = Something(p)
    BY <1>5, <1>6 DEF Emitted, Something
<1>8. \A d \in Chunks : task'[p][d] # "outside" => d \in Emitted(p)'
    BY <1>5, <1>7 DEF ListsInv, ListsAt
<1>9. CASE cached'[p] = Append(cached[p], c) /\ api'[p] = api[p]
    <2>1. /\ Range(cached'[p]) = Range(cached[p]) \cup {c} /\ Distinct(cached'[p])
          /\ Range(api'[p]) = Range(api[p]) /\ Distinct(api'[p])
        BY <1>6, <1>9 DEF ListsInv, ListsAt
    <2> QED
        BY <1>3, <1>4, <1>7, <1>8, <2>1 DEF ListsInv, ListsAt
<1>10. CASE api'[p] = Append(api[p], c) /\ cached'[p] = cached[p]
    BY <1>3, <1>4, <1>6, <1>7, <1>8, <1>10 DEF ListsInv, ListsAt
<1> QED
    BY <1>5, <1>9, <1>10

\* What is taken off the cached list is merged, or is left to the API.
LEMMA ListsTakeHead ==
    ASSUME TypeInv, ListsInv, NEW p \in Procs, Load(p) \/ Discard(p)
    PROVE  ListsAt(p)'
<1> DEFINE c == Head(cached[p])
<1>1. cached[p] \in Seq(Chunks) /\ cached[p] # <<>> /\ api[p] \in Seq(Chunks)
    BY DEF Load, Discard, TypeInv, TypeOK
<1>2. /\ Distinct(cached[p]) /\ Distinct(api[p])
      /\ Range(api[p]) \cap Range(cached[p]) = {}
    BY DEF ListsInv, ListsAt
<1>3. /\ c \in Chunks /\ Range(cached[p]) = {c} \cup Range(Tail(cached[p]))
      /\ Distinct(Tail(cached[p])) /\ c \notin Range(Tail(cached[p]))
    BY <1>1, <1>2, HeadAndTail
<1>4. Listed(p)' = Listed(p) /\ count' = count /\ task' = task
    BY DEF Load, Discard, Listed
<1> HIDE DEF c
<1>5. CASE Load(p)
    <2>1. api' = api
        BY <1>5 DEF Load
    <2>2. \/ UNCHANGED <<cached, merged>>
          \/ cached'[p] = Tail(cached[p]) /\ Something(p)' = Something(p) \cup {c}
        <3>1. TypeOK
            BY DEF TypeInv
        <3>2. ASSUME NEW outcome \in {"whole", "partial"},
                     merged' = [merged EXCEPT ![p][Head(cached[p])] = outcome]
              PROVE  Something(p)' = Something(p) \cup {c}
            BY <1>3, <3>1, <3>2 DEF Something, TypeOK, c
        <3>3. cached' = [cached EXCEPT ![p] = Tail(@)] => cached'[p] = Tail(cached[p])
            BY <3>1 DEF TypeOK
        <3> QED
            BY <1>5, <3>1, <3>2, <3>3, LoadFacts
    <2>3. Emitted(p)' = Emitted(p)
        BY <1>4, <2>1 DEF Emitted
    <2>4. CASE UNCHANGED <<cached, merged>>
        BY <1>4, <2>1, <2>3, <2>4 DEF ListsInv, ListsAt, Something
    <2>5. CASE cached'[p] = Tail(cached[p]) /\ Something(p)' = Something(p) \cup {c}
        BY <1>2, <1>3, <1>4, <2>1, <2>3, <2>5 DEF ListsInv, ListsAt
    <2> QED
        BY <2>2, <2>4, <2>5
<1>6. CASE Discard(p)
    <2>1. /\ cached'[p] = Tail(cached[p]) /\ api'[p] = Append(api[p], c)
          /\ merged' = merged
        BY <1>6 DEF Discard, TypeInv, TypeOK, c
    <2>2. /\ Range(Append(api[p], c)) = Range(api[p]) \cup {c} /\ Distinct(Append(api[p], c))
          /\ \A i \in DOMAIN api[p] :
                i \in DOMAIN Append(api[p], c) /\ Append(api[p], c)[i] = api[p][i]
        <3>1. c \notin Range(api[p])
            BY <1>2, <1>3
        <3> QED
            BY <1>1, <1>2, <1>3, <3>1, Appended
    <2>3. Emitted(p) \subseteq Emitted(p)' /\ Something(p)' = Something(p)
        BY <1>4, <2>1, <2>2 DEF Emitted, Something
    <2>4. \A d \in Chunks : task'[p][d] # "outside" => d \in Emitted(p)'
        BY <1>4, <2>3 DEF ListsInv, ListsAt
    <2> QED
        BY <1>2, <1>3, <1>4, <2>1, <2>2, <2>3, <2>4 DEF ListsInv, ListsAt
<1> QED
    BY <1>5, <1>6

LEMMA ListsEmit ==
    ASSUME TypeInv, ListsInv, NEW p \in Procs, Emit(p)
    PROVE  ListsAt(p)' /\ api[p][count[p] + 1] \in Chunks
           /\ task[p][api[p][count[p] + 1]] = "outside"
<1> DEFINE c == api[p][count[p] + 1]
<1>1. /\ api[p] \in Seq(Chunks) /\ Distinct(api[p]) /\ count[p] \in Nat
      /\ count[p] < Len(api[p])
    BY DEF Emit, TypeInv, TypeOK, ListsInv, ListsAt
<1>2. c \in Chunks /\ c \notin Emitted(p)
    BY <1>1 DEF Distinct, Emitted
<1>3. /\ count'[p] = count[p] + 1 /\ task'[p] = [task[p] EXCEPT ![c] = "preparing"]
      /\ UNCHANGED <<listed, cached, api, merged>>
    BY DEF Emit, GoesTo, TypeInv, TypeOK
<1>4. Emitted(p)' = Emitted(p) \cup {c}
    <2>1. 1 .. count[p] + 1 = (1 .. count[p]) \cup {count[p] + 1}
        BY <1>1
    <2>2. count[p] + 1 \in DOMAIN api[p]
        BY <1>1
    <2> QED
        BY <1>3, <2>1, <2>2 DEF Emitted
<1>5. Listed(p)' = Listed(p) /\ Something(p)' = Something(p)
    BY <1>3 DEF Listed, Something
<1> HIDE DEF c
<1>6. \A d \in Chunks : task'[p][d] # "outside" => d \in Emitted(p)'
    <2>1. \A d \in Chunks : d # c => task'[p][d] = task[p][d]
        BY <1>3 DEF TypeInv, TypeOK
    <2> QED
        BY <1>4, <2>1 DEF ListsInv, ListsAt
<1>7. task[p][c] = "outside"
    BY <1>2 DEF ListsInv, ListsAt
<1>8. ListsAt(p)'
    BY <1>3, <1>5, <1>6 DEF ListsInv, ListsAt
<1> QED
    BY <1>2, <1>7, <1>8 DEF c

LEMMA ListsStep ==
    ASSUME TypeInv, ListsInv, [Next]_vars
    PROVE  ListsInv'
<1>0. TypeOK
    BY DEF TypeInv
<1>1. ASSUME NEW p \in Procs, Main(p)
      PROVE  ListsInv'
    <2>1. ASSUME NEW q \in Procs, q # p
          PROVE  ListsAt(q)'
        <3>1. /\ listed'[q] = listed[q] /\ api'[q] = api[q]
              /\ count'[q] = count[q] /\ task'[q] = task[q]
            BY <1>0, <1>1, <2>1 DEF TypeOK, Main, Call, LookUp, LookedUp, Load, Discard, Loaded, Emit, Finish, GoesTo
        <3>2. cached'[q] = cached[q] /\ merged'[q] = merged[q]
            <4>1. CASE Load(p)
                <5> DEFINE c == Head(cached[p])
                <5>1. \/ UNCHANGED <<cached, merged>>
                      \/ /\ cached' = [cached EXCEPT ![p] = Tail(@)]
                         /\ \E outcome \in {"whole", "partial"} :
                               merged' = [merged EXCEPT ![p][c] = outcome]
                    BY <1>0, <4>1, LoadFacts
                <5> HIDE DEF c
                <5> QED
                    BY <1>0, <2>1, <5>1 DEF TypeOK
            <4>2. CASE ~Load(p)
                BY <1>0, <1>1, <2>1, <4>2
                DEF TypeOK, Main, Call, LookUp, LookedUp, Discard, Loaded, Emit, Finish
            <4> QED
                BY <4>1, <4>2
        <3> QED
            BY <3>1, <3>2, ListsElsewhere
    <2>2. ASSUME Call(p)
          PROVE  ListsAt(p)'
        <3>1. listed'[p] = 0 /\ cached'[p] = <<>> /\ api'[p] = <<>> /\ task'[p] = Fresh(p)
            BY <1>0, <2>2 DEF Call, TypeOK
        <3> QED
            BY <3>1, ListsEmpty
    <2>3. ASSUME LookedUp(p) \/ Loaded(p) \/ Finish(p)
          PROVE  ListsAt(p)'
        <3>1. UNCHANGED <<listed, cached, api, count, task, merged>>
            BY <2>3 DEF LookedUp, Loaded, Finish
        <3> QED
            BY <3>1, ListsElsewhere
    <2>4. ListsAt(p)'
        BY <1>1, <2>2, <2>3, ListsLookUp, ListsTakeHead, ListsEmit DEF Main
    <2> QED
        BY <2>1, <2>4 DEF ListsInv
<1>2. ASSUME NEW p \in Procs, NEW c \in Chunks, Body(p, c) \/ Throw(p, c)
      PROVE  ListsInv'
    <2>1. /\ UNCHANGED <<listed, cached, api, count>>
          /\ \A q \in Procs : Something(q) \subseteq Something(q)'
        <3>1. UNCHANGED <<listed, cached, api, count>>
            BY <1>2 DEF Body, Prepare, BeginWrite, EndWrite, SkipWrite, BeginMerge, EndMerge, Throw
        <3>2. CASE EndMerge(p, c)
            BY <1>0, <3>2 DEF EndMerge, Something, TypeOK
        <3>3. CASE ~EndMerge(p, c)
            BY <1>2, <3>3 DEF Body, Prepare, BeginWrite, EndWrite, SkipWrite, BeginMerge, Throw, Something
        <3> QED
            BY <3>1, <3>2, <3>3
    <2>2. \A q \in Procs : \A d \in Chunks :
            task'[q][d] # "outside" => task[q][d] # "outside"
        <3>1. task[p][c] # "outside"
            BY <1>2 DEF Body, Prepare, BeginWrite, EndWrite, SkipWrite, BeginMerge, EndMerge, Throw
        <3>2. PICK stage \in Stages : GoesTo(p, c, stage)
            BY <1>2 DEF Body, Prepare, BeginWrite, EndWrite, SkipWrite, BeginMerge, EndMerge, Throw,
                        Stages, Running, Waiting
        <3> QED
            BY <1>0, <3>1, <3>2 DEF GoesTo, TypeOK
    <2>3. ASSUME NEW q \in Procs
          PROVE  ListsAt(q)'
        <3>1. Listed(q)' = Listed(q) /\ Emitted(q)' = Emitted(q)
            BY <2>1 DEF Listed, Emitted
        <3> QED
            BY <2>1, <2>2, <3>1 DEF ListsInv, ListsAt
    <2> QED
        BY <2>3 DEF ListsInv
<1>3. ASSUME NEW p \in Procs, Crash(p) \/ Rerun(p)
      PROVE  ListsInv'
    <2>1. Reset(p)
        BY <1>3 DEF Crash, Rerun
    <2>2. ListsAt(p)'
        BY <1>0, <2>1, ListsEmpty DEF Reset, TypeOK
    <2>3. ASSUME NEW q \in Procs, q # p
          PROVE  ListsAt(q)'
        BY <1>0, <2>1, <2>3, ListsElsewhere DEF Reset, TypeOK
    <2> QED
        BY <2>2, <2>3 DEF ListsInv
<1>4. CASE UNCHANGED vars
    BY <1>4, ListsElsewhere DEF vars, local, ListsInv
<1> QED
    BY <1>1, <1>2, <1>3, <1>4 DEF Next

-----------------------------------------------------------------------------
(* Bodies run only inside a call, and a torn file has its writer.           *)

RunInv ==
    /\ TypeInv
    /\ ListsInv
    /\ NoBodyOutlivesCall
    /\ TornOnlyByCrash

LEMMA RunMain ==
    ASSUME RunInv, NEW p \in Procs, Main(p)
    PROVE  NoBodyOutlivesCall' /\ TornOnlyByCrash'
<1> USE DEF RunInv, NoBodyOutlivesCall, TornOnlyByCrash, TypeInv, TypeOK
<1>0. Required[p] \in Seq(Chunks)
    BY RequiredAssumption
<1>1. CASE Call(p)
    BY <1>1 DEF Call, Fresh, Running
<1>2. CASE LookUp(p)
    BY <1>2 DEF LookUp
<1>3. CASE LookedUp(p)
    BY <1>3 DEF LookedUp
<1>4. CASE Load(p)
    BY <1>4, LoadFacts DEF Load
<1>5. CASE Discard(p)
    <2>1. Head(cached[p]) \in Chunks
        BY <1>5, HeadAndTail DEF Discard
    <2> QED
        BY <1>5, <2>1 DEF Discard
<1>6. CASE Loaded(p)
    BY <1>6 DEF Loaded
<1>7. CASE Emit(p)
    <2>1. api[p][count[p] + 1] \in Chunks /\ task[p][api[p][count[p] + 1]] = "outside"
        BY <1>7, ListsEmit
    <2> QED
        BY <1>7, <2>1 DEF Emit, GoesTo, MayStart
<1>8. CASE Finish(p)
    BY <1>8 DEF Finish, Quiescent
<1> QED
    BY <1>1, <1>2, <1>3, <1>4, <1>5, <1>6, <1>7, <1>8 DEF Main

LEMMA RunBody ==
    ASSUME RunInv, NEW p \in Procs, NEW c \in Chunks, Body(p, c) \/ Throw(p, c)
    PROVE  NoBodyOutlivesCall' /\ TornOnlyByCrash'
<1> USE DEF RunInv, NoBodyOutlivesCall, TornOnlyByCrash, TypeInv, TypeOK, GoesTo, Running
<1>1. CASE Prepare(p, c)
    BY <1>1 DEF Prepare
<1>2. CASE BeginWrite(p, c)
    BY <1>2 DEF BeginWrite, MayStart
<1>3. CASE EndWrite(p, c)
    BY <1>3 DEF EndWrite
<1>4. CASE SkipWrite(p, c)
    BY <1>4 DEF SkipWrite
<1>5. CASE BeginMerge(p, c)
    BY <1>5 DEF BeginMerge, MayStart
<1>6. CASE EndMerge(p, c)
    BY <1>6 DEF EndMerge
<1>7. CASE Throw(p, c)
    BY <1>7 DEF Throw
<1> QED
    BY <1>1, <1>2, <1>3, <1>4, <1>5, <1>6, <1>7 DEF Body

LEMMA RunStep ==
    ASSUME RunInv, [Next]_vars
    PROVE  RunInv'
<1>0. TypeInv'
    BY TypeStep DEF RunInv
<1>1. ASSUME NEW p \in Procs, Crash(p) \/ Rerun(p)
      PROVE  NoBodyOutlivesCall' /\ TornOnlyByCrash'
    <2> USE DEF RunInv, NoBodyOutlivesCall, TornOnlyByCrash, TypeInv, TypeOK, Reset, Fresh, Running
    <2>1. CASE Crash(p)
        BY <2>1, BoundsAssumption DEF Crash
    <2>2. CASE Rerun(p)
        BY <2>2 DEF Rerun
    <2> QED
        BY <1>1, <2>1, <2>2
<1>2. ASSUME UNCHANGED vars
      PROVE  NoBodyOutlivesCall' /\ TornOnlyByCrash'
    <2>1. UNCHANGED <<disk, writer, pc, task, crashes>>
        BY <1>2 DEF vars, local
    <2>2. NoBodyOutlivesCall'
        BY <2>1 DEF RunInv, NoBodyOutlivesCall
    <2>3. TornOnlyByCrash'
        BY <2>1 DEF RunInv, TornOnlyByCrash
    <2> QED
        BY <2>2, <2>3
<1>3. NoBodyOutlivesCall' /\ TornOnlyByCrash'
    <2>1. CASE Next
        <3>1. PICK p \in Procs :
                \/ Main(p) \/ Crash(p) \/ Rerun(p)
                \/ \E c \in Chunks : Body(p, c) \/ Throw(p, c)
            BY <2>1 DEF Next
        <3> QED
            BY <1>1, <3>1, RunMain, RunBody
    <2> QED
        BY <1>2, <2>1
<1>4. ListsInv'
    BY ListsStep DEF RunInv
<1> QED
    BY <1>0, <1>3, <1>4 DEF RunInv

LEMMA RunInit ==
    ASSUME Init
    PROVE  RunInv
<1>1. NoBodyOutlivesCall /\ TornOnlyByCrash
    BY DEF Init, NoBodyOutlivesCall, TornOnlyByCrash, Fresh, Running
<1> QED
    BY <1>1, TypeInit, ListsInit DEF RunInv

\* The references a body holds are alive: the call that owns their targets is
\* still waiting (DelaunayTriangulation.cpp:361, 377, 462, 475-487).
THEOREM BodiesEndWithCall ==
    Spec => []NoBodyOutlivesCall
<1>1. RunInv => NoBodyOutlivesCall
    BY DEF RunInv
<1> QED
    BY <1>1, RunInit, RunStep, PTL DEF Spec

\* An exception, however often one is thrown, leaves no torn file behind
\* (ChunkCache.cpp:36-43, DelaunayTriangulation.cpp:478-483).
THEOREM TornByCrashOnly ==
    Spec => []TornOnlyByCrash
<1>1. RunInv => TornOnlyByCrash
    BY DEF RunInv
<1> QED
    BY <1>1, RunInit, RunStep, PTL DEF Spec

-----------------------------------------------------------------------------
(* What a call returns.  The input node's counter is static and never reset *)
(* (DelaunayTriangulation.cpp:366-378), so this is about a process's first  *)
(* call: a later one skips as many chunks as the earlier ones emitted.      *)

CallAt(p) ==
    /\ pc[p] \in {"idle", "crashed"} => calls[p] = 0
    /\ pc[p] \notin {"idle", "crashed"} => calls[p] >= 1
    /\ pc[p] \notin {"waiting", "done", "failed"} => count[p] = 0
    /\ pc[p] \notin {"idle", "crashed", "listing"} => listed[p] = Len(Required[p])
    /\ pc[p] \in {"waiting", "done"} => cached[p] = <<>>
    /\ pc[p] = "waiting" /\ ~cancelled[p] => \A c \in Emitted(p) : task[p][c] # "outside"
    /\ \A c \in Chunks : task[p][c] = "collected" => c \in Something(p)
    /\ pc[p] = "done" => Range(Required[p]) \subseteq Something(p)

CallInv == \A p \in Procs : CallAt(p)

LEMMA CallInit ==
    ASSUME Init
    PROVE  CallInv
BY DEF Init, CallInv, CallAt, Fresh

\* A step that leaves the variables of a process alone.
LEMMA CallElsewhere ==
    ASSUME CallInv, NEW q \in Procs, pc'[q] = pc[q], calls'[q] = calls[q],
           listed'[q] = listed[q], cached'[q] = cached[q], api'[q] = api[q],
           count'[q] = count[q], task'[q] = task[q], cancelled'[q] = cancelled[q],
           merged'[q] = merged[q]
    PROVE  CallAt(q)'
BY DEF CallInv, CallAt, Emitted, Something

\* A terrain is complete when nothing is listed any more but what was collected.
LEMMA Complete ==
    ASSUME TypeOK, ListsInv, NEW p \in Procs, listed[p] = Len(Required[p]), cached[p] = <<>>,
           Range(api[p]) \subseteq Something(p)
    PROVE  Range(Required[p]) \subseteq Something(p)
<1>1. Required[p] \in Seq(Chunks)
    BY RequiredAssumption
<1>2. Range(Required[p]) = Listed(p)
    BY <1>1 DEF Range, Listed
<1>3. Range(cached[p]) = {}
    BY DEF Range
<1> QED
    BY <1>2, <1>3 DEF ListsInv, ListsAt

LEMMA CallMain ==
    ASSUME MaxCalls = 1, RunInv, CallInv, NEW p \in Procs, Main(p)
    PROVE  CallAt(p)'
<1>0. TypeOK /\ ListsInv /\ CallAt(p)
    BY DEF RunInv, TypeInv, CallInv
<1>1. CASE Call(p)
    BY <1>0, <1>1 DEF TypeOK, Call, CallAt, Fresh
<1>2. CASE LookUp(p)
    <2>1. /\ pc' = pc /\ calls' = calls /\ count' = count /\ task' = task /\ merged' = merged
          /\ pc[p] = "listing"
        BY <1>2 DEF LookUp
    <2> QED
        BY <1>0, <2>1 DEF CallAt, Something
<1>3. CASE LookedUp(p)
    BY <1>0, <1>3 DEF TypeOK, LookedUp, CallAt, Something
<1>4. CASE Load(p)
    <2>1. /\ calls' = calls /\ count' = count /\ task' = task /\ listed' = listed
          /\ pc[p] = "loading" /\ pc'[p] \in {"loading", "discarding"}
          /\ Something(p) \subseteq Something(p)'
        <3>1. /\ calls' = calls /\ count' = count /\ task' = task /\ listed' = listed
              /\ pc[p] = "loading"
            BY <1>4 DEF Load
        <3> DEFINE c == Head(cached[p])
        <3>2. \/ pc' = [pc EXCEPT ![p] = "discarding"] /\ merged' = merged
              \/ /\ pc' = pc
                 /\ \E outcome \in {"whole", "partial"} :
                       merged' = [merged EXCEPT ![p][c] = outcome]
            BY <1>0, <1>4, LoadFacts
        <3> HIDE DEF c
        <3>3. pc'[p] \in {"loading", "discarding"}
            BY <1>0, <3>1, <3>2 DEF TypeOK
        <3>4. Something(p) \subseteq Something(p)'
            BY <1>0, <3>2 DEF TypeOK, Something
        <3> QED
            BY <3>1, <3>3, <3>4
    <2> QED
        BY <1>0, <2>1 DEF CallAt
<1>5. CASE Discard(p)
    <2>1. /\ calls' = calls /\ count' = count /\ task' = task /\ listed' = listed
          /\ merged' = merged /\ pc[p] = "discarding" /\ pc'[p] = "loading"
        BY <1>0, <1>5 DEF TypeOK, Discard
    <2> QED
        BY <1>0, <2>1 DEF CallAt, Something
<1>6. CASE Loaded(p)
    <2>1. /\ pc[p] = "loading" /\ cached[p] = <<>>
          /\ UNCHANGED <<calls, listed, cached, api, count, task, cancelled, merged>>
          /\ pc'[p] = IF api[p] = <<>> THEN "done" ELSE "waiting"
        BY <1>0, <1>6 DEF TypeOK, Loaded
    <2>2. listed[p] = Len(Required[p]) /\ count[p] = 0 /\ calls[p] >= 1
        BY <1>0, <2>1 DEF CallAt
    <2>3. Emitted(p)' = {} /\ Something(p)' = Something(p)
        BY <2>1, <2>2 DEF Emitted, Something
    <2>4. CASE api[p] = <<>>
        <3>1. Range(api[p]) \subseteq Something(p)
            BY <2>4 DEF Range
        <3>2. Range(Required[p]) \subseteq Something(p)
            BY <1>0, <2>1, <2>2, <3>1, Complete
        <3> QED
            BY <1>0, <2>1, <2>2, <2>3, <2>4, <3>2 DEF CallAt
    <2>5. CASE api[p] # <<>>
        BY <1>0, <2>1, <2>2, <2>3, <2>5 DEF CallAt
    <2> QED
        BY <2>4, <2>5
<1>7. CASE Emit(p)
    <2> DEFINE c == api[p][count[p] + 1]
    <2>1. /\ pc[p] = "waiting" /\ UNCHANGED <<pc, calls, listed, cached, api, cancelled, merged>>
          /\ count[p] \in Nat /\ count'[p] = count[p] + 1 /\ count[p] < Len(api[p])
          /\ task'[p] = [task[p] EXCEPT ![c] = "preparing"]
        BY <1>0, <1>7 DEF TypeOK, Emit, MayStart, GoesTo
    <2>2. api[p] \in Seq(Chunks) /\ c \in Chunks /\ task[p] \in [Chunks -> Stages]
        BY <1>0, <2>1 DEF TypeOK
    <2>3. Emitted(p)' = Emitted(p) \cup {c}
        <3>1. 1 .. count[p] + 1 = (1 .. count[p]) \cup {count[p] + 1}
            BY <2>1
        <3>2. count[p] + 1 \in DOMAIN api[p]
            BY <2>1, <2>2
        <3> QED
            BY <2>1, <3>1, <3>2 DEF Emitted
    <2>4. Emitted(p) \subseteq Chunks
        BY <2>2 DEF Emitted
    <2> HIDE DEF c
    <2>5. ~cancelled[p] => \A d \in Emitted(p)' : task'[p][d] # "outside"
        BY <1>0, <2>1, <2>2, <2>3, <2>4 DEF CallAt
    <2>6. \A d \in Chunks : task'[p][d] = "collected" => d \in Something(p)'
        BY <1>0, <2>1, <2>2 DEF CallAt, Something
    <2> QED
        BY <1>0, <2>1, <2>5, <2>6 DEF CallAt
<1>8. CASE Finish(p)
    <2>1. /\ pc[p] = "waiting" /\ Quiescent(p)
          /\ UNCHANGED <<calls, listed, cached, api, count, task, cancelled, merged>>
          /\ pc'[p] = IF cancelled[p] THEN "failed" ELSE "done"
        BY <1>0, <1>8 DEF TypeOK, Finish
    <2>2. /\ listed[p] = Len(Required[p]) /\ cached[p] = <<>> /\ calls[p] >= 1
          /\ Something(p)' = Something(p)
        BY <1>0, <2>1 DEF CallAt, Something
    <2>3. CASE cancelled[p]
        BY <1>0, <2>1, <2>2, <2>3 DEF CallAt
    <2>4. CASE ~cancelled[p]
        <3>1. count[p] >= Len(api[p]) /\ \A c \in Chunks : task[p][c] \in {"outside", "collected"}
            BY <1>0, <2>1, <2>4 DEF TypeOK, Quiescent, Stages
        <3>2. Range(api[p]) \subseteq Emitted(p) /\ Range(api[p]) \subseteq Chunks
            BY <1>0, <3>1 DEF TypeOK, Range, Emitted
        <3>3. \A c \in Range(api[p]) : task[p][c] = "collected"
            BY <1>0, <2>1, <2>4, <3>1, <3>2 DEF CallAt
        <3>4. Range(api[p]) \subseteq Something(p)
            BY <1>0, <3>2, <3>3 DEF CallAt
        <3>5. Range(Required[p]) \subseteq Something(p)
            BY <1>0, <2>2, <3>4, Complete
        <3> QED
            BY <1>0, <2>1, <2>2, <2>4, <3>5 DEF CallAt
    <2> QED
        BY <2>3, <2>4
<1> QED
    BY <1>1, <1>2, <1>3, <1>4, <1>5, <1>6, <1>7, <1>8 DEF Main

LEMMA CallBody ==
    ASSUME RunInv, CallInv, NEW p \in Procs, NEW c \in Chunks, Body(p, c) \/ Throw(p, c)
    PROVE  CallAt(p)'
<1>0. TypeOK /\ CallAt(p)
    BY DEF RunInv, TypeInv, CallInv
<1>1. pc[p] = "waiting"
    <2>1. task[p][c] \in Running \/ MayStart(p)
        BY DEF Body, Prepare, BeginWrite, EndWrite, SkipWrite, BeginMerge, EndMerge, Throw, Running
    <2> QED
        BY <2>1 DEF RunInv, NoBodyOutlivesCall, MayStart
<1>2. UNCHANGED <<pc, calls, listed, cached, api, count>>
    BY DEF Body, Prepare, BeginWrite, EndWrite, SkipWrite, BeginMerge, EndMerge, Throw
<1>3. \/ /\ cancelled' = cancelled /\ merged' = merged
         /\ \E stage \in Stages \ {"outside", "collected"} : GoesTo(p, c, stage)
      \/ /\ cancelled' = cancelled /\ merged' = [merged EXCEPT ![p][c] = "whole"]
         /\ GoesTo(p, c, "collected")
      \/ /\ cancelled' = [cancelled EXCEPT ![p] = TRUE] /\ merged' = merged
         /\ GoesTo(p, c, "outside")
    BY DEF Body, Prepare, BeginWrite, EndWrite, SkipWrite, BeginMerge, EndMerge, Throw,
           Stages, Running, Waiting
<1>4. Emitted(p)' = Emitted(p) /\ Emitted(p) \subseteq Chunks
    BY <1>0, <1>2 DEF Emitted, TypeOK
<1>5. ~cancelled'[p] => \A d \in Emitted(p)' : task'[p][d] # "outside"
    BY <1>0, <1>1, <1>3, <1>4 DEF CallAt, TypeOK, GoesTo
<1>6. \A d \in Chunks : task'[p][d] = "collected" => d \in Something(p)'
    BY <1>0, <1>3 DEF CallAt, TypeOK, GoesTo, Something
<1> QED
    BY <1>0, <1>1, <1>2, <1>5, <1>6 DEF CallAt

LEMMA CallStep ==
    ASSUME MaxCalls = 1, RunInv, CallInv, [Next]_vars
    PROVE  CallInv'
<1>0. TypeOK
    BY DEF RunInv, TypeInv
<1>1. ASSUME NEW p \in Procs, Main(p), NEW q \in Procs, q # p
      PROVE  CallAt(q)'
    <2>1. /\ listed'[q] = listed[q] /\ api'[q] = api[q] /\ calls'[q] = calls[q]
          /\ count'[q] = count[q] /\ task'[q] = task[q] /\ cancelled'[q] = cancelled[q]
        BY <1>0, <1>1
        DEF TypeOK, Main, Call, LookUp, LookedUp, Load, Discard, Loaded, Emit, Finish, GoesTo
    <2>2. pc'[q] = pc[q] /\ cached'[q] = cached[q] /\ merged'[q] = merged[q]
        <3>1. CASE Load(p)
            <4> DEFINE c == Head(cached[p])
            <4>1. \/ pc' = [pc EXCEPT ![p] = "discarding"] /\ UNCHANGED <<cached, merged>>
                  \/ /\ cached' = [cached EXCEPT ![p] = Tail(@)] /\ UNCHANGED pc
                     /\ \E outcome \in {"whole", "partial"} :
                           merged' = [merged EXCEPT ![p][c] = outcome]
                BY <1>0, <3>1, LoadFacts
            <4> HIDE DEF c
            <4> QED
                BY <1>0, <1>1, <4>1 DEF TypeOK
        <3>2. CASE ~Load(p)
            BY <1>0, <1>1, <3>2
            DEF TypeOK, Main, Call, LookUp, LookedUp, Discard, Loaded, Emit, Finish
        <3> QED
            BY <3>1, <3>2
    <2> QED
        BY <1>1, <2>1, <2>2, CallElsewhere
<1>2. ASSUME NEW p \in Procs, NEW c \in Chunks, Body(p, c) \/ Throw(p, c),
             NEW q \in Procs, q # p
      PROVE  CallAt(q)'
    <2>1. UNCHANGED <<pc, calls, listed, cached, api, count>>
        BY <1>2 DEF Body, Prepare, BeginWrite, EndWrite, SkipWrite, BeginMerge, EndMerge, Throw
    <2>2. task'[q] = task[q] /\ cancelled'[q] = cancelled[q] /\ merged'[q] = merged[q]
        BY <1>0, <1>2
        DEF TypeOK, Body, Prepare, BeginWrite, EndWrite, SkipWrite, BeginMerge, EndMerge, Throw, GoesTo
    <2> QED
        BY <2>1, <2>2, CallElsewhere
<1>3. ASSUME NEW p \in Procs, Crash(p) \/ Rerun(p), NEW q \in Procs
      PROVE  CallAt(q)'
    <2>1. Reset(p) /\ \E at \in {"idle", "crashed"} : pc' = [pc EXCEPT ![p] = at]
        BY <1>3 DEF Crash, Rerun
    <2>2. CASE q = p
        <3>1. /\ pc'[p] \in {"idle", "crashed"} /\ calls'[p] = 0 /\ count'[p] = 0
              /\ task'[p] = Fresh(p)
            BY <1>0, <2>1 DEF TypeOK, Reset
        <3> QED
            BY <2>2, <3>1 DEF CallAt, Fresh
    <2>3. CASE q # p
        <3>1. /\ pc'[q] = pc[q] /\ calls'[q] = calls[q] /\ listed'[q] = listed[q]
              /\ cached'[q] = cached[q] /\ api'[q] = api[q] /\ count'[q] = count[q]
              /\ task'[q] = task[q] /\ cancelled'[q] = cancelled[q] /\ merged'[q] = merged[q]
            BY <1>0, <2>1, <2>3 DEF TypeOK, Reset
        <3> QED
            BY <3>1, CallElsewhere
    <2> QED
        BY <2>2, <2>3
<1>4. ASSUME UNCHANGED vars, NEW q \in Procs
      PROVE  CallAt(q)'
    BY <1>4, CallElsewhere DEF vars, local
<1>5. ASSUME NEW q \in Procs
      PROVE  CallAt(q)'
    <2>1. CASE Next
        <3>1. PICK p \in Procs :
                \/ Main(p) \/ Crash(p) \/ Rerun(p)
                \/ \E c \in Chunks : Body(p, c) \/ Throw(p, c)
            BY <2>1 DEF Next
        <3>2. CASE q = p
            BY <1>3, <3>1, <3>2, CallMain, CallBody
        <3>3. CASE q # p
            BY <1>1, <1>2, <1>3, <3>1, <3>3
        <3> QED
            BY <3>2, <3>3
    <2> QED
        BY <1>4, <2>1
<1> QED
    BY <1>5 DEF CallInv

\* Whatever other processes do to the cache, and whatever was left in it, the
\* terrain a process's first call returns has got something of every chunk the
\* boundary requires (DelaunayTriangulation.cpp:302-339, 366-378, 474-487).
THEOREM FirstCallReturnsEveryChunk ==
    ASSUME MaxCalls = 1
    PROVE  Spec => []ReturnsEveryChunk
<1>1. Init => RunInv /\ CallInv
    BY RunInit, CallInit
<1>2. RunInv /\ CallInv /\ [Next]_vars => (RunInv /\ CallInv)'
    BY MaxCalls = 1, RunStep, CallStep
<1>3. CallInv => ReturnsEveryChunk
    BY DEF CallInv, CallAt, ReturnsEveryChunk, Something
<1> QED
    BY <1>1, <1>2, <1>3, PTL DEF Spec
=============================================================================
