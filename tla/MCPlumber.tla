----------------------------- MODULE MCPlumber -----------------------------
(***************************************************************************)
(* Scripts for a Logger and one replicated component: two declarations of  *)
(* the same name, links to and from Bench, timed and not, of a wrong type, *)
(* of a component to itself, and to a component that is not there.         *)
(***************************************************************************)
EXTENDS Plumber

Decl(name, value, rep, timer) ==
    [kind |-> "decl", name |-> name, value |-> value, rep |-> rep, timer |-> timer,
     priority |-> 20]
Link(from, fromTimed, type, to, toTimed) ==
    [kind |-> "link", from |-> from, fromTimed |-> fromTimed, type |-> type, to |-> to,
     toTimed |-> toTimed]

MCLines ==
    {Decl("log", "Logger", "NONE", 0),
     Decl("phil", "Filter", "TMR", 0),
     Decl("phil", "ArtPot", "SMR", 400),
     Link("Bench", FALSE, "RANGE_POSE_DATA", "phil", TRUE),
     Link("phil", TRUE, "MOV_CMD", "Bench", FALSE),
     Link("phil", FALSE, "RANGE_POSE_DATA", "log", FALSE),
     Link("phil", TRUE, "MAP_UPDATE", "phil", TRUE),
     Link("phil", FALSE, "MAPUPDATE", "log", FALSE),
     Link("Bench", FALSE, "RANGEPOSE", "plan", FALSE)}
=============================================================================
