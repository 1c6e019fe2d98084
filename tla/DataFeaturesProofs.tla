-------------------------- MODULE DataFeaturesProofs --------------------------
(***************************************************************************)
(* Proofs about DataFeatures for any chunks, faces and datasets, and for   *)
(* any number of failures, kills and runs: type correctness, that the mesh *)
(* is final when it is tagged, that a face is tagged from the dataset of   *)
(* its own chunk, and that water is never taken for land.                  *)
(***************************************************************************)
EXTENDS DataFeatures, TLAPS

-----------------------------------------------------------------------------
(* Where SetupTimePreset is, by its call.                                   *)

LEMMA PlanFacts ==
    /\ Len(Plan) = 5
    /\ Plan[1] = <<"Initialize", "terrain">> /\ Plan[2] = <<"Initialize", "water">>
    /\ Plan[3] = <<"Initialize", "paths">>
    /\ Plan[4] = <<"Tag", "terrain">> /\ Plan[5] = <<"Tag", "water">>
BY DEF Plan

LEMMA AtInitialize ==
    ASSUME at \in 1 .. Len(Plan) + 1, NEW f, At("Initialize", f)
    PROVE  status = "running" /\ at \in 1 .. 3 /\ f \in Features
BY PlanFacts DEF At, Features, Tagging

LEMMA AtTag ==
    ASSUME at \in 1 .. Len(Plan) + 1, NEW f, At("Tag", f)
    PROVE  /\ status = "running" /\ at \in 4 .. 5 /\ f \in Tagging
           /\ f = "terrain" => at = 4
           /\ f = "water" => at = 5
BY PlanFacts DEF At, Tagging

\* The lists that the loops run through.
LEMMA ListFacts ==
    /\ Len(Required) \in Nat \ {0} /\ Len(Faces) \in Nat \ {0}
    /\ \A i \in 1 .. Len(Required) : Required[i] \in Range(Required) /\ Required[i] \in Chunks
    /\ \A i \in 1 .. Len(Faces) :
          /\ Faces[i] \in Range(Faces)
          /\ ChunkOf[Faces[i]] # Nil => ChunkOf[Faces[i]] \in Chunks
    /\ Nil \notin Chunks
<1>1. /\ Required \in Seq(Range(Required)) /\ Required # <<>> /\ Nil \notin Range(Required)
      /\ Faces \in Seq(Range(Faces)) /\ Faces # <<>>
    BY InputAssumption
<1>2. Len(Required) \in Nat \ {0} /\ Len(Faces) \in Nat \ {0}
    BY <1>1
<1>3. DOMAIN Required = 1 .. Len(Required) /\ DOMAIN Faces = 1 .. Len(Faces)
    BY <1>1
<1>4. Nil \notin Chunks
    BY <1>1 DEF Chunks
<1> QED
    BY <1>2, <1>3, <1>4 DEF Range, Chunks

-----------------------------------------------------------------------------
(* The invariant: the loop's position says whether the mesh may change; the *)
(* dataset in hand is the one of dataset_chunk; what is tagged, was read in *)
(* the dataset of the face's own chunk.                                     *)

InBody    == step # "look" => at <= 3 /\ held # "none"
Untagged  == at <= 3 => \A f \in Tagging : tags[f] = <<>>
InHand    == dataset # "none" /\ at > 3 =>
                 at <= 5 /\ loaded \in Chunks /\ dataset = data[Plan[at][2]][loaded]
ReadRight(f, g) ==
    /\ ChunkOf[g] \in Chunks
    /\ data[f][ChunkOf[g]] = "whole" => tags[f][g] = PixelLabel(f, Truth[f][g])
    /\ data[f][ChunkOf[g]] = "absent" => tags[f][g] = "NODATA"
TaggedRight == \A f \in Tagging : \A g \in DOMAIN tags[f] : ReadRight(f, g)

Inv ==
    /\ TypeOK /\ DOMAIN tags = Tagging
    /\ InBody /\ Untagged /\ InHand /\ TaggedRight

LEMMA InvInit ==
    ASSUME Init
    PROVE  Inv
<1>1. TypeOK /\ DOMAIN tags = Tagging
    <2>1. \A f \in Tagging : DOMAIN tags[f] = {} /\ Range(tags[f]) = {}
        BY DEF Init, Range
    <2>2. at \in 1 .. Len(Plan) + 1 /\ next \in 1 .. (IF at <= 3 THEN Len(Required) ELSE Len(Faces))
        BY PlanFacts, ListFacts DEF Init
    <2> QED
        BY <2>1, <2>2, BoundsAssumption DEF Init, TypeOK, Files
<1>2. InBody /\ Untagged /\ InHand
    BY DEF Init, InBody, Untagged, InHand
<1>3. TaggedRight
    BY DEF Init, TaggedRight
<1> QED
    BY <1>1, <1>2, <1>3 DEF Inv

LEMMA Position ==
    ASSUME Inv
    PROVE  /\ at \in 1 .. 6 /\ at \in 1 .. Len(Plan) + 1
           /\ at <= 3 => next \in 1 .. Len(Required)
           /\ at > 3 => next \in 1 .. Len(Faces)
<1>1. at \in 1 .. Len(Plan) + 1 /\ Len(Plan) = 5
    BY PlanFacts DEF Inv, TypeOK
<1>2. at \in 1 .. 6
    BY <1>1
<1>3. next \in 1 .. (IF at <= 3 THEN Len(Required) ELSE Len(Faces))
    BY DEF Inv, TypeOK
<1> QED
    BY <1>1, <1>2, <1>3

\* How a loop goes on.
LEMMA Advanced ==
    ASSUME at \in 1 .. 5, NEW n, n = (IF at <= 3 THEN Len(Required) ELSE Len(Faces)),
           next \in 1 .. n, Advance(n)
    PROVE  /\ at' \in 1 .. Len(Plan) + 1 /\ at' \in {at, at + 1}
           /\ next' \in 1 .. (IF at' <= 3 THEN Len(Required) ELSE Len(Faces))
           /\ step' = "look" /\ held' = "none"
<1>1. Len(Required) \in Nat \ {0} /\ Len(Faces) \in Nat \ {0} /\ Len(Plan) = 5
    BY PlanFacts, ListFacts
<1>2. CASE next < n
    BY <1>1, <1>2 DEF Advance
<1>3. CASE ~(next < n)
    BY <1>1, <1>3 DEF Advance
<1> QED
    BY <1>2, <1>3

\* A step that leaves the mesh's tags, and the datasets they were read from, alone.
LEMMA TagsKept ==
    ASSUME Inv, UNCHANGED <<data, tags>>
    PROVE  TaggedRight' /\ (DOMAIN tags = Tagging)' /\ (at' \in {at, at + 1} => Untagged')
<1>1. TaggedRight'
    BY DEF Inv, TaggedRight, ReadRight
<1>2. at' \in {at, at + 1} => Untagged'
    <2>1. at \in Nat
        BY Position
    <2> QED
        BY <2>1 DEF Inv, Untagged
<1> QED
    BY <1>1, <1>2 DEF Inv

LEMMA StartStep ==
    ASSUME Inv, Start
    PROVE  Inv'
<1>1. TypeOK' /\ (DOMAIN tags = Tagging)'
    <2>1. \A f \in Tagging : DOMAIN tags'[f] = {} /\ Range(tags'[f]) = {}
        BY DEF Start, Range
    <2>2. at' \in 1 .. Len(Plan) + 1 /\ next' \in 1 .. (IF at' <= 3 THEN Len(Required) ELSE Len(Faces))
        BY PlanFacts, ListFacts DEF Start
    <2>3. /\ data' \in [Tagging -> [Chunks -> Files]] /\ contour' \in [Features -> [Chunks -> Files]]
          /\ failures' \in 0 .. MaxFailures /\ crashes' \in 0 .. MaxCrashes
        BY DEF Inv, TypeOK, Start, files
    <2> QED
        BY <2>1, <2>2, <2>3 DEF Start, TypeOK
<1>2. InBody' /\ Untagged' /\ InHand' /\ TaggedRight'
    BY DEF Start, InBody, Untagged, InHand, TaggedRight
<1> QED
    BY <1>1, <1>2 DEF Inv

\* A run that ends keeps what it has got.
LEMMA StopStep ==
    ASSUME Inv, status' \in {"threw", "killed"}, UNCHANGED <<files, enabled, loop, inserted, tags>>,
           failures' \in 0 .. MaxFailures, crashes' \in 0 .. MaxCrashes
    PROVE  Inv'
<1> USE DEF Inv, files, loop
<1>1. TypeOK' /\ (DOMAIN tags = Tagging)'
    BY DEF TypeOK
<1>2. InBody' /\ Untagged' /\ InHand' /\ TaggedRight'
    BY DEF InBody, Untagged, InHand, TaggedRight, ReadRight
<1> QED
    BY <1>1, <1>2

-----------------------------------------------------------------------------
(* Initialize.                                                              *)

\* A chunk's step that stays in the loop's body.
LEMMA BodyStep ==
    ASSUME Inv, NEW f \in Features, At("Initialize", f),
           UNCHANGED <<status, enabled, at, next, loaded, dataset, inserted, tags, crashes>>,
           step' \in {"data", "filling", "contours", "writing", "insert"},
           held' \in {"torn", "whole"},
           data' \in [Tagging -> [Chunks -> Files]], contour' \in [Features -> [Chunks -> Files]],
           failures' \in 0 .. MaxFailures
    PROVE  Inv'
<1>1. at \in 1 .. 3
    BY AtInitialize DEF Inv, TypeOK
<1>2. TypeOK' /\ (DOMAIN tags = Tagging)'
    BY DEF Inv, TypeOK
<1>3. InBody' /\ Untagged' /\ InHand'
    <2>1. at' = at /\ tags' = tags
        OBVIOUS
    <2>2. held' # "none"
        OBVIOUS
    <2>3. Untagged
        BY DEF Inv
    <2>4. InBody'
        BY <1>1, <2>1, <2>2 DEF InBody
    <2>5. Untagged'
        BY <1>1, <2>1, <2>3 DEF Untagged
    <2>6. InHand'
        BY <1>1, <2>1 DEF InHand
    <2> QED
        BY <2>4, <2>5, <2>6
<1>4. TaggedRight'
    <2>1. \A g \in Tagging : tags'[g] = <<>>
        BY <1>1 DEF Inv, Untagged
    <2> QED
        BY <2>1 DEF TaggedRight
<1> QED
    BY <1>2, <1>3, <1>4 DEF Inv

LEMMA InitializeStep ==
    ASSUME Inv, NEW f \in Features, At("Initialize", f),
           \/ UseContours(f) \/ Fetch(f) \/ Insert(f) \/ BeginContours(f) \/ EndContours(f)
           \/ BeginData(f) \/ EndData(f) \/ UseDataset(f)
           \/ FetchFails(f) \/ ExtractFails(f) \/ ContoursFail(f) \/ SkipData(f) \/ DataFails(f)
    PROVE  Inv'
<1>1. status = "running" /\ at \in 1 .. 3
    BY AtInitialize DEF Inv, TypeOK
<1>2. next \in 1 .. Len(Required) /\ chunk \in Chunks
    <2>1. next \in 1 .. Len(Required)
        BY <1>1, Position
    <2> QED
        BY <2>1, ListFacts DEF chunk
<1>3. /\ data \in [Tagging -> [Chunks -> Files]] /\ contour \in [Features -> [Chunks -> Files]]
      /\ failures \in 0 .. MaxFailures /\ crashes \in 0 .. MaxCrashes
      /\ held \in {"none", "torn", "whole"} /\ (step # "look" => held # "none")
    BY DEF Inv, TypeOK, InBody
<1>4. ASSUME failures < MaxFailures
      PROVE  failures + 1 \in 0 .. MaxFailures
    BY <1>3, <1>4, BoundsAssumption
<1>5. ASSUME Throws, UNCHANGED <<files, enabled, crashes>>, failures' \in 0 .. MaxFailures
      PROVE  Inv'
    BY <1>3, <1>5, StopStep DEF Throws
<1>6. ASSUME Advance(Len(Required)), NewDataset, UNCHANGED <<files, status, enabled, tags, crashes>>,
             inserted' \in [Features -> [Chunks -> {"nothing", "torn", "whole"}]],
             failures' \in 0 .. MaxFailures
      PROVE  Inv'
    <2>1. /\ at' \in 1 .. Len(Plan) + 1 /\ at' \in {at, at + 1}
          /\ next' \in 1 .. (IF at' <= 3 THEN Len(Required) ELSE Len(Faces))
          /\ step' = "look" /\ held' = "none"
        BY <1>1, <1>2, <1>6, Advanced
    <2>2. /\ loaded' \in Chunks \cup {Nil} /\ dataset' \in {"none", "torn", "whole"}
          /\ at' # at => dataset' = "none"
        BY <1>6 DEF NewDataset, SameDataset, Inv, TypeOK
    <2>3. TypeOK'
        BY <1>6, <2>1, <2>2 DEF Inv, TypeOK, files
    <2>4. InBody' /\ InHand'
        BY <1>1, <2>1, <2>2 DEF InBody, InHand
    <2> QED
        BY <1>6, <2>1, <2>3, <2>4, TagsKept DEF Inv, files
<1> USE DEF Goes, files
<1>7. CASE UseContours(f)
    BY <1>2, <1>3, <1>7, BodyStep DEF UseContours, HasContours, Files
<1>8. CASE Fetch(f)
    BY <1>3, <1>8, BodyStep DEF Fetch
<1>9. CASE Insert(f)
    <2>1. inserted' \in [Features -> [Chunks -> {"nothing", "torn", "whole"}]]
        BY <1>2, <1>3, <1>9 DEF Insert, Inv, TypeOK
    <2> QED
        BY <1>3, <1>6, <1>9, <2>1 DEF Insert
<1>10. CASE BeginContours(f)
    BY <1>3, <1>10, BodyStep DEF BeginContours, Files
<1>11. CASE EndContours(f)
    BY <1>3, <1>11, BodyStep DEF EndContours, Files
<1>12. CASE BeginData(f)
    BY <1>3, <1>12, BodyStep DEF BeginData, Files
<1>13. CASE EndData(f)
    BY <1>3, <1>13, BodyStep DEF EndData, Files
<1>14. CASE UseDataset(f)
    <2>1. f \in Tagging
        BY <1>14 DEF UseDataset, HasDataset, Tagging
    <2>2. data[f][chunk] \in {"torn", "whole"}
        BY <1>2, <1>3, <1>14, <2>1 DEF UseDataset, HasDataset, Files
    <2> QED
        BY <1>3, <1>5, <1>14, <2>2, BodyStep DEF UseDataset
<1>15. CASE FetchFails(f)
    <2>1. failures' \in 0 .. MaxFailures
        BY <1>4, <1>15 DEF FetchFails
    <2> QED
        BY <1>5, <1>6, <1>15, <2>1 DEF FetchFails, Inv, TypeOK
<1>16. CASE ContoursFail(f)
    BY <1>3, <1>4, <1>5, <1>16, BodyStep DEF ContoursFail
<1>17. CASE SkipData(f)
    BY <1>3, <1>4, <1>17, BodyStep DEF SkipData
<1>18. CASE DataFails(f)
    BY <1>4, <1>5, <1>18 DEF DataFails
<1>19. CASE ExtractFails(f)
    BY <1>4, <1>5, <1>19 DEF ExtractFails
<1> QED
    BY <1>7, <1>8, <1>9, <1>10, <1>11, <1>12, <1>13, <1>14, <1>15, <1>16, <1>17, <1>18, <1>19

-----------------------------------------------------------------------------
(* Tag.                                                                     *)

LEMMA PixelLabels ==
    ASSUME NEW f, NEW label \in Labels
    PROVE  PixelLabel(f, label) \in Labels /\ (f = "water" => PixelLabel(f, label) = label)
BY DEF PixelLabel, Labels

\* A step to the next face, which leaves the tags or labels the face; the dataset
\* in hand, if any, is the file of dataset_chunk.
LEMMA FaceStep ==
    ASSUME Inv, NEW f \in Tagging, At("Tag", f), 
           UNCHANGED <<files, status, enabled, inserted, failures, crashes>>,
           Advance(Len(Faces)),
           \/ tags' = tags
           \/ \E value \in Labels :
                 /\ tags' = [tags EXCEPT ![f] = Put(@, face, value)]
                 /\ home # Nil
                 /\ data[f][home] = "whole" => value = PixelLabel(f, Truth[f][face])
                 /\ data[f][home] = "absent" => value = "NODATA",
           \/ NewDataset
           \/ at' = at /\ loaded' = home /\ dataset' = data[f][home] /\ home # Nil
              /\ dataset' # "absent"
    PROVE  Inv'
<1>1. /\ status = "running" /\ at \in 4 .. 5 /\ next \in 1 .. Len(Faces) /\ Plan[at][2] = f
      /\ Len(Plan) = 5
    <2>1. status = "running" /\ at \in 4 .. 5 /\ Plan[at] = <<"Tag", f>>
        BY AtTag, Position DEF At
    <2> QED
        BY <2>1, Position, PlanFacts
<1>2. face \in Range(Faces) /\ (home # Nil => home \in Chunks)
    BY <1>1, ListFacts DEF face, home
<1>3. /\ at' \in 1 .. Len(Plan) + 1 /\ at' \in {at, at + 1}
      /\ next' \in 1 .. (IF at' <= 3 THEN Len(Required) ELSE Len(Faces))
      /\ step' = "look" /\ held' = "none"
    BY <1>1, Advanced
<1>4. (DOMAIN tags = Tagging)' /\ TaggedRight'
      /\ \A h \in Tagging : DOMAIN tags'[h] \subseteq Range(Faces) /\ Range(tags'[h]) \subseteq Labels
    <2>1. CASE tags' = tags
        BY <2>1, TagsKept DEF files, Inv, TypeOK
    <2>2. CASE ~(tags' = tags)
        <3>1. PICK value \in Labels :
                 /\ tags' = [tags EXCEPT ![f] = Put(@, face, value)]
                 /\ home # Nil
                 /\ data[f][home] = "whole" => value = PixelLabel(f, Truth[f][face])
                 /\ data[f][home] = "absent" => value = "NODATA"
            BY <2>2
        <3> PICK here : here = face
            OBVIOUS
        <3>2. /\ DOMAIN tags' = Tagging /\ tags'[f] = Put(tags[f], here, value)
              /\ \A h \in Tagging : h # f => tags'[h] = tags[h]
            BY <3>1 DEF Inv
        <3>3. /\ DOMAIN tags'[f] = DOMAIN tags[f] \cup {here}
              /\ tags'[f][here] = value
              /\ \A g \in DOMAIN tags[f] : g # here => tags'[f][g] = tags[f][g]
            BY <3>2 DEF Put
        <3>4. ReadRight(f, here)'
            BY <1>2, <3>1, <3>3 DEF ReadRight, home, files
        <3>5. ASSUME NEW h \in Tagging, NEW g \in DOMAIN tags'[h]
              PROVE  ReadRight(h, g)'
            <4>1. CASE h = f /\ g = here
                BY <3>4, <4>1
            <4>2. CASE ~(h = f /\ g = here)
                <5>1. g \in DOMAIN tags[h] /\ tags'[h][g] = tags[h][g]
                    BY <3>2, <3>3, <3>5, <4>2
                <5>2. ReadRight(h, g)
                    BY <5>1 DEF Inv, TaggedRight
                <5> QED
                    BY <5>1, <5>2 DEF ReadRight, files
            <4> QED
                BY <4>1, <4>2
        <3>6. ASSUME NEW h \in Tagging
              PROVE  DOMAIN tags'[h] \subseteq Range(Faces) /\ Range(tags'[h]) \subseteq Labels
            <4>1. DOMAIN tags[h] \subseteq Range(Faces) /\ Range(tags[h]) \subseteq Labels
                BY DEF Inv, TypeOK
            <4>2. CASE h = f
                BY <1>2, <3>3, <4>1, <4>2 DEF Range
            <4>3. CASE h # f
                BY <3>2, <4>1, <4>3
            <4> QED
                BY <4>2, <4>3
        <3>7. TaggedRight'
            BY <3>5 DEF TaggedRight
        <3> QED
            BY <3>2, <3>6, <3>7
    <2> QED
        BY <2>1, <2>2
<1>5. /\ loaded' \in Chunks \cup {Nil} /\ dataset' \in {"none", "torn", "whole"}
      /\ InHand'
    <2>1. CASE NewDataset
        <3>1. CASE at' # at
            BY <2>1, <3>1 DEF NewDataset, InHand
        <3>2. CASE at' = at
            BY <2>1, <3>2 DEF NewDataset, SameDataset, Inv, TypeOK, InHand, files
        <3> QED
            BY <3>1, <3>2
    <2>2. CASE at' = at /\ loaded' = home /\ dataset' = data[f][home] /\ home # Nil
               /\ dataset' # "absent"
        <3>1. data[f][home] \in Files
            BY <1>2, <2>2 DEF Inv, TypeOK
        <3> QED
            BY <1>1, <1>2, <2>2, <3>1 DEF InHand, Files, files
    <2> QED
        BY <2>1, <2>2
<1>6. TypeOK'
    BY <1>3, <1>4, <1>5 DEF Inv, TypeOK, files
<1>7. InBody' /\ Untagged'
    BY <1>1, <1>3 DEF InBody, Untagged
<1> QED
    BY <1>4, <1>5, <1>6, <1>7 DEF Inv

\* What a dataset says, if it is whole.
LEMMA ReadsRight ==
    ASSUME Inv, NEW f \in Tagging, At("Tag", f), NEW from, NEW value \in Reads(f, from)
    PROVE  value \in Labels /\ (from = "whole" => value = PixelLabel(f, Truth[f][face]))
<1>1. next \in 1 .. Len(Faces)
    BY AtTag, Position
<1>2. Truth[f][face] \in Labels
    BY <1>1, InputAssumption DEF face
<1> QED
    BY <1>2, PixelLabels DEF Reads

LEMMA TagStep ==
    ASSUME Inv, Tag
    PROVE  Inv'
<1>1. CASE NoDataset
    BY <1>1, StopStep DEF NoDataset, Throws, Inv, TypeOK
<1>2. ASSUME NEW f \in Tagging, PassOver(f)
      PROVE  Inv'
    BY <1>2, FaceStep DEF PassOver
<1>3. ASSUME NEW f \in Tagging, NoData(f)
      PROVE  Inv'
    BY <1>3, FaceStep DEF NoData, Label, Labels
<1>4. ASSUME NEW f \in Tagging, Load(f)
      PROVE  Inv'
    <2>1. CASE Throws
        BY <1>4, <2>1, StopStep DEF Load, Throws, Inv, TypeOK
    <2>2. CASE ~Throws
        <3>1. PICK value \in Reads(f, data[f][home]) : Label(f, value)
            BY <1>4, <2>2 DEF Load
        <3>2. /\ At("Tag", f) /\ home # Nil /\ data[f][home] # "absent"
              /\ UNCHANGED <<files, status, enabled, inserted, failures, crashes>>
              /\ IF at' # at THEN NewDataset ELSE loaded' = home /\ dataset' = data[f][home]
            BY <1>4, <2>2 DEF Load
        <3>3. value \in Labels /\ (data[f][home] = "whole" => value = PixelLabel(f, Truth[f][face]))
            BY <3>1, <3>2, ReadsRight
        <3> QED
            BY <3>1, <3>2, <3>3, FaceStep DEF Label
    <2> QED
        BY <2>1, <2>2
<1>5. ASSUME NEW f \in Tagging, Read(f)
      PROVE  Inv'
    <2>1. /\ At("Tag", f) /\ home # Nil /\ home = loaded /\ dataset # "none" /\ NewDataset
          /\ UNCHANGED <<files, status, enabled, inserted, failures, crashes>>
        BY <1>5 DEF Read, InDataset
    <2>2. PICK value \in Reads(f, dataset) : Label(f, value)
        BY <1>5, <2>1 DEF Read
    <2>3. dataset = data[f][home]
        <3>1. at \in 4 .. 5 /\ Plan[at] = <<"Tag", f>>
            BY <2>1, AtTag, Position DEF At
        <3> QED
            BY <2>1, <3>1 DEF Inv, InHand
    <2>4. value \in Labels /\ (dataset = "whole" => value = PixelLabel(f, Truth[f][face]))
        BY <2>1, <2>2, ReadsRight
    <2>5. data[f][home] # "absent"
        BY <2>1, <2>3 DEF Inv, TypeOK
    <2> QED
        BY <2>1, <2>2, <2>3, <2>4, <2>5, FaceStep DEF Label
<1> QED
    BY <1>1, <1>2, <1>3, <1>4, <1>5 DEF Tag

LEMMA InvStep ==
    ASSUME Inv, [Next]_vars
    PROVE  Inv'
<1>1. CASE Crash
    <2>1. failures \in 0 .. MaxFailures /\ crashes \in 0 .. MaxCrashes
        BY DEF Inv, TypeOK
    <2>2. failures' \in 0 .. MaxFailures /\ crashes' \in 0 .. MaxCrashes
        BY <1>1, <2>1, BoundsAssumption DEF Crash
    <2> QED
        BY <1>1, <2>2, StopStep DEF Crash
<1>2. CASE Initialize \/ InitializeFails
    BY <1>2, InitializeStep DEF Initialize, InitializeFails, UseContours, Fetch, Insert, BeginContours,
       EndContours, BeginData, EndData, UseDataset, FetchFails, ExtractFails, ContoursFail, SkipData,
       DataFails
<1>3. CASE UNCHANGED vars
    BY <1>3 DEF vars, files, loop, Inv, TypeOK, InBody, Untagged, InHand, TaggedRight, ReadRight
<1> QED
    BY <1>1, <1>2, <1>3, StartStep, TagStep DEF Next

-----------------------------------------------------------------------------
(* What follows.                                                            *)

\* Type correctness for any chunks, faces, failures, kills and runs.
THEOREM TypeCorrect ==
    Spec => []TypeOK
<1>1. Inv => TypeOK
    BY DEF Inv
<1> QED
    BY <1>1, InvInit, InvStep, PTL DEF Spec

\* No face is tagged from the dataset that was opened for the face before it, if
\* that is of another chunk (BoolWaterFeature.cpp:127-140, CEHTerrainFeature.cpp:199-209).
THEOREM TagsComeFromOwnChunk ==
    Spec => []TaggedFromOwnChunk
<1>1. Inv => TaggedFromOwnChunk
    BY DEF Inv, TaggedRight, ReadRight, TaggedFromOwnChunk
<1> QED
    BY <1>1, InvInit, InvStep, PTL DEF Spec

\* Whatever could not be fetched, cached or read, and however often the program was
\* killed and started again, water is taken for land only where the cached dataset
\* was cut short (BoolWaterFeature.cpp:53-59, 127-132, 173-195, 223-241).
THEOREM NoWaterTakenForLand ==
    Spec => []WaterIsAvoided
<1>1. Inv => WaterIsAvoided
    <2> SUFFICES ASSUME Inv, NEW f \in Range(Faces), f \in DOMAIN tags["water"],
                        Truth["water"][f] = "WATER",
                        ChunkOf[f] # Nil => data["water"][ChunkOf[f]] # "torn"
                 PROVE  tags["water"][f] # "LAND"
        BY DEF WaterIsAvoided, Water, Range
    <2>1. "water" \in Tagging
        BY DEF Tagging
    <2>2. ReadRight("water", f)
        BY <2>1 DEF Inv, TaggedRight
    <2>3. ChunkOf[f] \in Chunks /\ data["water"][ChunkOf[f]] \in {"absent", "whole"}
        <3>1. ChunkOf[f] \in Chunks /\ ChunkOf[f] # Nil
            BY <2>2, ListFacts DEF ReadRight
        <3>2. data["water"][ChunkOf[f]] \in Files
            BY <2>1, <3>1 DEF Inv, TypeOK
        <3> QED
            BY <3>1, <3>2 DEF Files
    <2>4. PixelLabel("water", "WATER") = "WATER"
        BY DEF PixelLabel
    <2> QED
        BY <2>2, <2>3, <2>4 DEF ReadRight
<1> QED
    BY <1>1, InvInit, InvStep, PTL DEF Spec

\* The maps are keyed by faces of the mesh, which an insertion would replace: no
\* contour is inserted once a face has been tagged (Presets.cpp:81-93).
THEOREM MeshIsFinalWhenTagged ==
    Spec => TagsFinalMesh
<1>1. ASSUME Inv, [Next]_vars
      PROVE  [status = "running" /\ inserted' # inserted => \A f \in Tagging : tags[f] = <<>>]_vars
    <2> SUFFICES ASSUME Next, status = "running", inserted' # inserted
                 PROVE  \A f \in Tagging : tags[f] = <<>>
        BY <1>1
    <2>1. ASSUME NEW f \in Features, Insert(f)
          PROVE  at <= 3
        BY <1>1, <2>1, AtInitialize DEF Insert, Inv, TypeOK
    <2>2. CASE Initialize \/ InitializeFails
        BY <1>1, <2>1, <2>2 DEF Initialize, InitializeFails, UseContours, Fetch, BeginContours,
           EndContours, BeginData, EndData, UseDataset, FetchFails, ExtractFails, ContoursFail,
           SkipData, DataFails, Goes, Throws, Inv, Untagged
    <2>3. CASE Tag
        BY <2>3 DEF Tag, NoDataset, PassOver, NoData, Load, Read, Throws
    <2> QED
        BY <2>2, <2>3 DEF Next, Start, Crash
<1> QED
    BY <1>1, InvInit, InvStep, PTL DEF Spec, TagsFinalMesh
==============================================================================
