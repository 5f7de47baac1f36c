--------------------------- MODULE MCAppiumSessions ---------------------------
(* Two handlers and one or two devices.                                    *)
EXTENDS AppiumSessions, TLC

CONSTANTS d1, d2, h1, h2

MCDevice == {d1, d2}
MCOneDevice == {d1}
MCHandler == {h1, h2}
MCPort == {4724, 4725}
MCOnePort == {4724}

\* Handlers are interchangeable, and so are devices.
SessionSymmetry == Permutations(Handler) \cup Permutations(Device)
=============================================================================
