---------------------------- MODULE DynamicScopes ----------------------------
(***************************************************************************)
(* What nested overrides of an environment promise, said by what is bound  *)
(* where: a scope binds some variables, the innermost binding of a         *)
(* variable is the one seen and the one assigned to, and with a scope its  *)
(* bindings are gone.                                                      *)
(***************************************************************************)
EXTENDS Naturals, Sequences

CONSTANTS
  Variables, Values,
  Bindings     \* what a scope may bind

VARIABLES
  base,     \* the values outside of every scope
  layers,   \* the bindings of the scopes, the innermost last
  env       \* what is seen

vars == <<base, layers, env>>

\* The innermost scope that binds v; 0 is outside.
Binder(v, ls) ==
  CHOOSE i \in 0 .. Len(ls) :
    /\ i > 0 => v \in DOMAIN ls[i]
    /\ \A j \in i + 1 .. Len(ls) : v \notin DOMAIN ls[j]
Seen(b, ls) == [v \in Variables |-> IF Binder(v, ls) = 0 THEN b[v] ELSE ls[Binder(v, ls)][v]]

Init == base \in [Variables -> Values] /\ layers = <<>> /\ env = base

Bind(bindings) ==
  /\ layers' = Append(layers, bindings) /\ base' = base
  /\ env' = Seen(base', layers')

Assign(v, x) ==
  /\ IF Binder(v, layers) = 0
     THEN base' = [base EXCEPT ![v] = x] /\ layers' = layers
     ELSE layers' = [layers EXCEPT ![Binder(v, layers)] = [@ EXCEPT ![v] = x]] /\ base' = base
  /\ env' = Seen(base', layers')

Unbind ==
  /\ layers # <<>>
  /\ layers' = SubSeq(layers, 1, Len(layers) - 1) /\ base' = base
  /\ env' = Seen(base', layers')

Next ==
  \/ \E bindings \in Bindings : Bind(bindings)
  \/ \E v \in Variables, x \in Values : Assign(v, x)
  \/ Unbind

Spec == Init /\ [][Next]_vars
=============================================================================
