---------------------------- MODULE MCMxdSystem ----------------------------
(* Values of the constants of MxdSystem for TLC.                           *)
EXTENDS MxdSystem, MxdMeaning

(* Two components of different size; two small ones; one that has a single *)
(* state below one that has two; three of them, for a fold.                *)
Uneven == <<2, 3>>
Small == <<2, 2>>
Rigid == <<1, 2>>
Three == <<2, 2, 2>>
MCSystems == {Uneven, Small, Rigid, Three}

BySystem(uneven, small, rigid, three) ==
  [d \in MCSystems |-> CASE d = Uneven -> uneven [] d = Small -> small
                         [] d = Rigid -> rigid [] d = Three -> three]

Lowest(x) == Min({x[k] : k \in DOMAIN x})
Series(d) == [x \in Omega(d) |-> Lowest(x)]

(* Neither monotone nor symmetric: the system works when only the first    *)
(* component does, and fails again when the second one does as well.       *)
Uneasy(d) == [x \in Omega(d) |-> IF x[1] > 0 /\ x[2] = 0 THEN 1 ELSE 0]

MCStructure == BySystem({Uneasy(Uneven)}, {Series(Small)}, {}, {})

(* The sum of the states, cut off at 2, and a value not monotone in it.    *)
Sum2 ==
  [init |-> 0,
   step |-> [<<acc, l, s>> \in (0 .. 2) \X (0 .. 2) \X (0 .. 2) |-> Min({acc + s, 2})],
   value |-> [acc \in 0 .. 2 |-> IF acc = 1 THEN 1 ELSE 0]]

MCFoldStructure == BySystem({}, {}, {}, {Sum2})

MCPattern ==
  BySystem({<< <<"val", 1>>, <<"any">> >>, << <<"any">>, <<"val", 2>> >>},
           {<< <<"val", 1>>, <<"any">> >>, << <<"val", 0>>, <<"val", 1>> >>},
           Patterns(Rigid), {})

MCMaxCalls == BySystem(3, 3, 3, 3)

MCCalled ==
  BySystem({"degrade", "restart", "or_set", "setdiff_rel", "cross", "post_image", "pre_image", "boundary"},
           {"repair", "stay", "constants"} \cup Operations,
           {"single", "not_rel", "cross", "and_rel", "or_rel", "transpose", "not_set"},
           {"fail", "boundary", "and_set", "sources"})
=============================================================================
