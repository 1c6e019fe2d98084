----------------------------- MODULE MCWarnings ------------------------------
(***************************************************************************)
(* A strip of three faces between a and e.  Rises of 3 over 4 and of 4      *)
(* over 3, so that lengths are whole; the steeper one cannot be descended. *)
(***************************************************************************)
EXTENDS Warnings, TLC

CONSTANTS a, b, c, d, e, f1, f2, f3

MCCorners == (f1 :> {a, b, c}) @@ (f2 :> {b, c, d}) @@ (f3 :> {c, d, e})
MCAround  == (a :> <<f1>>) @@ (b :> <<f1, f2>>) @@ (c :> <<f3, f2, f1>>) @@ (d :> <<f2, f3>>)
                @@ (e :> <<f3>>)

Height(rise, high) == [v \in {a, b, c, d, e} |-> IF v \in high THEN rise ELSE 0]

Reliefs == {[run |-> 4, slant |-> 5, height |-> Height(3, h)] : h \in {{}, {b}, {a, c}}}
      \cup {[run |-> 3, slant |-> 5, height |-> Height(4, h)] : h \in {{b}, {d, e}}}
Waters  == [{f1, f2, f3} -> {"WATER", "LAND"}]
      \cup {(f1 :> "LAND") @@ (f2 :> "NODATA") @@ (f3 :> "none")}
\* What Tag gives now (DataFeatures: PixelLabel), and what the terrain may really be.
Grounds == {(f1 :> "URBAN") @@ (f2 :> "NODATA") @@ (f3 :> "none"),
            (f1 :> "WOODLAND") @@ (f2 :> "HEATHER") @@ (f3 :> "HEATHER_GRASSLAND")}
\* Paths, safe vertices and validity: everything is safe, or not the corner that three
\* faces share.
Everywhere == {a, b, c, d, e}
Meshes  == {<<{}, Everywhere, TRUE>>, <<{{a, b}, {b, d}}, Everywhere, TRUE>>,
            <<{{c, d}}, Everywhere, TRUE>>, <<{{a, b}, {b, d}}, Everywhere \ {c}, TRUE>>,
            <<{}, Everywhere, FALSE>>}

MCWorlds ==
    {[preset |-> p, run |-> r.run, slant |-> r.slant, height |-> r.height,
      terrain |-> g, water |-> w, paths |-> m[1], safe |-> m[2], valid |-> m[3]] :
        p \in Presets, r \in Reliefs, g \in Grounds, w \in Waters, m \in Meshes}
=============================================================================
