------------------------ MODULE MCSurfaceResolution ------------------------
(* Seven ids: 1 is taken by 2 when it is there (tower thorns and wall      *)
(* thorns), 3 mirrors 2 and 4 mirrors 3, 5 may be locked by 6, and 7 is an *)
(* old spelling of 1.  One of the two may be there, or neither.            *)
EXTENDS SurfaceResolution, TLC

MCId == 1 .. 7

On(f) == [ s \in MCId |-> IF s \in DOMAIN f THEN f[s] ELSE {} ]

(* The mirrors are upstream in the registry, or not, or only one of them.  *)
Upstreams == { On(2 :> {1}), On(2 :> {1} @@ 3 :> {2} @@ 4 :> {3}), On(2 :> {1} @@ 3 :> {2}),
               On(2 :> {1} @@ 4 :> {3}), On(2 :> {7} @@ 3 :> {2}) }

(* 3 mirrors 2 or, in a circle, 4.                                         *)
Mirrors == { On(3 :> {2} @@ 4 :> {3}), On(3 :> {4} @@ 4 :> {3}) }

Spelt == [ s \in MCId |-> CASE s = 7 -> << 1 >> [] s = 1 -> << 1, 7 >> [] OTHER -> << s >> ]

(* Own contributors of 1 to 4, and of 5 and 6.                             *)
OwnChoices ==
  { << a, b, c, "number", "number", "number", a >> :
      a \in {"number", "none", "zero"}, b \in {"number", "none", "inactive"},
      c \in {"number", "mixed"} }
  \cup { << "number", "number", "number", "number", d, e, "zero" >> :
      d \in {"number", "zero"}, e \in {"number", "zero", "inactive"} }

MCWorlds ==
  { [ available |-> a, spellings |-> Spelt, publishable |-> p, upstream |-> u, own |-> o,
      unlock |-> On(5 :> {6}), mirrors |-> m, uses |-> On(2 :> {1, 7}) ] :
      a \in { 1 .. 6, 2 .. 7, 2 .. 6 }, p \in { 1 .. 5, 2 .. 7 }, u \in Upstreams, o \in OwnChoices,
      m \in Mirrors }

MCRequests == { << 4 >>, << 3, 4, 2 >>, << 5, 2 >>, << 6, 5 >>, << 1, 7 >>, << 7, 2 >> }
=============================================================================
