---------------------------- MODULE MCWritePath -----------------------------
(***************************************************************************)
(* Small instances of WritePath: two or three remote entries above the     *)
(* root, in every graph a peer can have authored.                          *)
(***************************************************************************)
EXTENDS WritePath

HeightOf(p) ==
    LET h[e \in Remote] ==
            1 + (CHOOSE m \in 0..3 :
                   /\ \A q \in p[e] \ {Root} : h[q] <= m
                   /\ m = 0 \/ \E q \in p[e] \ {Root} : h[q] = m)
    IN  h

(* Remote entries are r1, r2, r3 in an order parents respect.  Parents are  *)
(* never an entry together with its ancestor.  The pin is the root's        *)
(* settings, or those of r1 when r1 changed the settings.                   *)
Graphs2 ==
    {[e \in {"r1", "r2"} |-> IF e = "r1" THEN {Root} ELSE p] :
        p \in {{Root}, {"r1"}}}

Graphs3 ==
    {[e \in {"r1", "r2", "r3"} |->
        CASE e = "r1" -> {Root} [] e = "r2" -> p[1] [] e = "r3" -> p[2]] :
        p \in {{Root}} \X {{Root}, {"r1"}, {"r2"}, {"r1", "r2"}}
              \cup {{"r1"}} \X {{Root}, {"r1"}, {"r2"}}}

WorldOf(g, settings, revokes, pins, verdict) ==
    [parents |-> g, height |-> HeightOf(g), settings |-> settings,
     revokes |-> revokes, pin |-> pins, verdict |-> verdict]

RootPins == [e \in Remote |-> {Root}]
AllValid == [e \in Remote |-> "valid"]

(* All valid, pinned to the root: only order and interleaving vary. *)
PlainWorlds3 == {WorldOf(g, {}, {}, RootPins, AllValid) : g \in Graphs3}

(* r1 changes the settings and the later entries are pinned to it. *)
PinnedWorlds ==
    {WorldOf(g, {"r1"}, {},
             [e \in Remote |-> IF e = "r1" THEN {Root} ELSE {"r1"}], AllValid) :
        g \in Graphs2}

(* A chain whose second entry is pinned to the settings of the first. *)
PinnedChain ==
    {w \in PinnedWorlds : w.parents["r2"] = {"r1"}}

(* r1 revokes the key that the local writers sign with. *)
RevokingWorlds ==
    {WorldOf(g, {"r1"}, {"r1"}, RootPins, AllValid) : g \in Graphs2}

(* A merge or a chain of three, of which at most one entry is invalid. *)
MixedWorlds3 ==
    {WorldOf(g, {}, {}, RootPins,
             [e \in Remote |-> IF e \in bad THEN "invalid" ELSE "valid"]) :
        g \in {h \in Graphs3 :
                  <<h["r2"], h["r3"]>> \in {<<{Root}, {"r1", "r2"}>>,
                                            <<{"r1"}, {"r2"}>>}},
        bad \in {{}} \cup {{e} : e \in Remote}}

(* A chain of two with every combination of verdicts. *)
MixedChain ==
    {WorldOf(g, {}, {}, RootPins, v) :
        g \in {h \in Graphs2 : h["r2"] = {"r1"}},
        v \in [Remote -> {"valid", "invalid", "delegated"}]}
=============================================================================
