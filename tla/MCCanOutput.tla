---------------------------- MODULE MCCanOutput ----------------------------
(* Small instance of CanOutput: two channels, two frame addresses.          *)
EXTENDS CanOutput

CONSTANTS a1, a2, src

Set(a, f, l, m) == [addr |-> a, func |-> f, loads |-> l, maps |-> m, act |-> 2]

\* both channels driven; only the second driven (its slot moved to the other
\* address, the first slot sends management frames only); a set that
\* loadChannel refuses; a set with an unknown function number.
MCProfiles ==
  { Set(<<a1, a2>>, <<src, src>>, TRUE, TRUE),
    Set(<<a2, a1>>, <<Disabled, src>>, TRUE, TRUE),
    Set(<<a1, Disabled>>, <<src, src>>, FALSE, TRUE),
    Set(<<Disabled, a2>>, <<Disabled, src>>, TRUE, FALSE) }

\* the second channel cannot be driven at a1: wrong mode
MCDrivable == {<<1, a1>>, <<1, a2>>, <<2, a2>>}
=============================================================================
