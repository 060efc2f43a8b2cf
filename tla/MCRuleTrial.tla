---------------------------- MODULE MCRuleTrial -----------------------------
(***************************************************************************)
(* Prices and quantities whose quotients end on, below and above half a    *)
(* paisa; dates at the ends of months and of leap years; numbers of every  *)
(* length.                                                                 *)
(***************************************************************************)
EXTENDS RuleTrial

ReadingsOfAMonth == {[num |-> 10000, den |-> 1, ambiguous |-> FALSE, precision |-> "month"]}

Codes == {<<8, 9, 0, 1, 2, 3, 5>>, <<0, 1, 2, 3, 4, 5, 6, 7, 8, 9, 0>>,
          <<8, 9, 0, 4, 5, 6, 1, 2, 3, 7, 8, 9>>, <<1, 8, 9, 0, 7, 0, 0, 3, 3, 1, 9, 9, 2>>}
=============================================================================
