-------------------------- MODULE MCParticleSystem --------------------------
(***************************************************************************)
(* Three particles, collections of two, and two colours.  In the run their *)
(* sums are 39 apart, as those of colours that differ by 1/255 in red, and *)
(* no collection is that far from the first (MCSumApart).  With MCSum the  *)
(* second collection of Dark is the first of Light, as happens to such     *)
(* colours after 39 full collections.  The graphics card can draw point    *)
(* sprites, with programs or without.                                      *)
(***************************************************************************)
EXTENDS ParticleSystem

MCColours == {"dark", "light"}
MCSum == [c \in MCColours |-> IF c = "dark" THEN 0 ELSE 1]
MCSumApart == [c \in MCColours |-> IF c = "dark" THEN 0 ELSE 39]
MCHardware == {{"point_sprite"}, {"point_sprite", "programs"}}
=============================================================================
