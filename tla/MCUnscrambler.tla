--------------------------- MODULE MCUnscrambler ---------------------------
(* Instances of Unscrambler for TLC. *)
EXTENDS Unscrambler

\* The overscan and the prescan change places; the data come first.
MCOrders == {<<"dat", "pos", "pre">>}

\* Every type, flip and quarter, negative angles, whole turns and an angle that is none.
MCDefinitions ==
    Types \X {0} \X {"none"}
    \cup {<<"LL", 0, "vertical">>, <<"UR", 0, "horizontal">>, <<"LR", 180, "vertical">>,
          <<"UL", -180, "horizontal">>, <<"LL", 90, "none">>, <<"UR", 630, "vertical">>,
          <<"LR", -90, "horizontal">>, <<"UL", -270, "none">>, <<"UL", 45, "none">>}
=============================================================================
