----------------------------- MODULE MCOdometer -----------------------------
(* The texts of up to three of the characters 0 - 9 a with the lengths that  *)
(* a CPU and a GPU walk through; those of four, and longer ones with several *)
(* classes, with shorter words.  The classes have four characters each, more *)
(* than their templates.                                                     *)
EXTENDS Odometer

MCTemplates == <<<<"0", "-", "9">>, <<"a", "-", "z">>, <<"A", "-", "Z">>>>
MCExpansions == <<<<"0", "3", "6", "9">>, <<"a", "m", "p", "z">>, <<"A", "M", "P", "Z">>>>
MCAsciiTpl == <<"A", "S", "C", "I", "I">>
MCAsciiChars == <<"!", "0", "A", "a", "~">>

D == MCTemplates[1]
L == MCTemplates[2]
U == MCTemplates[3]

Short == BoundedSeq({"0", "-", "9", "a"}, 3)

Longer ==
  BoundedSeq({"0", "-", "9", "a"}, 4) \cup
  {D \o L, L \o D, U \o L \o D, D \o D, L \o <<"-">> \o D, D \o <<"a">> \o D,
   D \o <<"-", "z">>, <<"a", "-">> \o D, U \o U \o U, <<"0", "-">> \o D,
   <<"a", "-">> \o L, MCAsciiTpl, D \o MCAsciiTpl, MCAsciiTpl \o <<"x">>,
   <<"A", "S", "C", "I">>, <<"A", "-">> \o MCAsciiTpl}

Cpu(t, n) == [text |-> t, first |-> n, last |-> n, skipNul |-> FALSE, threads |-> 2]

\* A device begins at length 3 and goes on to the longest variant.
Gpu(t, n) == [text |-> t, first |-> 3, last |-> n, skipNul |-> TRUE, threads |-> 1]

MCTexts == Short \cup Longer

MCJobs ==
  {Cpu(t, 3) : t \in Short} \cup {Gpu(t, 4) : t \in Short}
    \cup {Gpu(t, 5) : t \in {<<"0", "a">>, <<"0">>}} \cup {Cpu(t, 2) : t \in Longer}
=============================================================================
