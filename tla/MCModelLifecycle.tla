-------------------------- MODULE MCModelLifecycle --------------------------
EXTENDS ModelLifecycle, TLC

CONSTANTS a, b, x, r1, r2, r3

\* Two requests for the same configured model, one for the extra model.
MCModelOf == r1 :> a @@ r2 :> a @@ r3 :> x
==============================================================================
