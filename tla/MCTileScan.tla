----------------------------- MODULE MCTileScan -----------------------------
(* Model checking of TileScan.                                               *)
EXTENDS TileScan, TLC

\* The highest pin is of the tile's database, the others are of its app.
MCRepository ==
  [p \in Pins |-> IF \A q \in Pins : q <= p THEN "database" ELSE "app"]

MCLicenses == <<{"MIT"}, {"SSPL"}, {"AGPL", "MIT"}>>

Found(class, fixed, severity, nr) ==
  [class |-> class, fixed |-> fixed, severity |-> severity, nr |-> nr]

Base == {Found("os-pkgs", TRUE, "HIGH", nr) : nr \in 1 .. 2}
          \cup {Found("lang-pkgs", FALSE, "CRITICAL", 1),
                Found("lang-pkgs", TRUE, "LOW", 1)}

\* Nothing known of any image; and then of the lowest pin what nobody here can
\* mend, of the others one finding of their own.
TwoDatabases ==
  {[p \in Pins |-> {}],
   [p \in Pins |-> IF p = 1 THEN Base
                   ELSE {Found("lang-pkgs", TRUE, "CRITICAL", 1)}]}

Symmetry == Permutations(PRs)

=============================================================================
