---------------------------- MODULE MCBootStages ----------------------------
(***************************************************************************)
(* Small instances of BootStages.                                          *)
(***************************************************************************)
EXTENDS BootStages

\* A layout to store over the default, and a text that names none.
MCAnswers == { <<"l", "a", "t", "a", "m">>, <<"x">> }

Image(i, f, h, d, s, a, ds) ==
  [init |-> i, fsck |-> f, home |-> h, dennis |-> d, seeded |-> s, appliance |-> a, devs |-> ds]

\* A desktop with a home disk, an installation from a seed, an appliance.
MCImages == { Image("runit", TRUE, TRUE, FALSE, FALSE, FALSE, <<"other", "minix">>),
              Image("sysvinit", TRUE, TRUE, TRUE, TRUE, FALSE, <<"absent", "short", "minix">>),
              Image("openrc", FALSE, FALSE, FALSE, TRUE, TRUE, <<>>) }
=============================================================================
