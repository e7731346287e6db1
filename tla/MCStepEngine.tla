---------------------------- MODULE MCStepEngine ----------------------------
(***************************************************************************)
(* Small instances of StepEngine for TLC.                                   *)
(***************************************************************************)
EXTENDS StepEngine, TLC

CONSTANTS a, b, c

MCSteps == {a, b, c}

MCPos == (a :> 1) @@ (b :> 2) @@ (c :> 3)

Def(S, deps) == [steps |-> S, dependsOn |-> deps, pos |-> MCPos]

MCDefinitions ==
    { Def({a, b, c}, (a :> {}) @@ (b :> {a}) @@ (c :> {b})),
      Def({a, b, c}, (a :> {}) @@ (b :> {}) @@ (c :> {a, b})),
      Def({a, b, c}, (a :> {}) @@ (b :> {}) @@ (c :> {})),
      Def({a, b}, (a :> {}) @@ (b :> {}) @@ (c :> {})),
      Def({a, b, c}, (a :> {}) @@ (b :> {c}) @@ (c :> {b})),
      Def({a, b}, (a :> {}) @@ (b :> {c}) @@ (c :> {})) }

=============================================================================
