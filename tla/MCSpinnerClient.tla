--------------------------- MODULE MCSpinnerClient ---------------------------
(***************************************************************************)
(* Instances of SpinnerClient for TLC: two outputs, the command line the   *)
(* compositor gives, those with options, and ones that end in the usage.   *)
(***************************************************************************)
EXTENDS SpinnerClient

CONSTANTS lvds, hdmi

MCOutput == {lvds, hdmi}

flag(f, text) == [flag |-> f, text |-> text]

MCCommandLine ==
    {<< >>,
     <<flag("n", ""), flag("q", "")>>,
     <<flag("s", "size"), flag("m", ""), flag("o", "")>>,
     <<flag("o", "zero"), flag("o", ""), flag("none", hdmi), flag("m", "")>>,
     <<flag("s", ""), flag("n", "")>>}

line(key, value) == [key |-> key, value |-> value]

MCSessionConf ==
    {<<line("GRID_UNIT_PX", "18"), line("NATIVE_ORIENTATION", "landscape"),
       line("NATIVE_ORIENTATION", "portrait")>>,
     <<line("NATIVE_ORIENTATION", "portrait")>>,
     <<line("NATIVE_ORIENTATION", "inverted_landscape")>>,
     <<line("NATIVE_ORIENTATION", "inverted_portrait"), line("GRID_UNIT_PX", "18")>>,
     << >>}

MCSize ==
    {[width |-> 3, height |-> 2], [width |-> 2, height |-> 3], [width |-> 2, height |-> 2]}
=============================================================================
