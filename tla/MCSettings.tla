----------------------------- MODULE MCSettings -----------------------------
(* An instance of Settings for TLC. *)
EXTENDS Settings

\* A string that a text file turns into a number, which it then keeps, and one
\* that it does not give back.
Strings == {Val("STRING", text) : text \in {"007", ""}}

\* One text file, a device, or a text file and a device in either order; saved by
\* the timer or at once; and a device that is missing.
Setups ==
  {[cached |-> TRUE, device |-> TRUE, types |-> <<"text">>],
   [cached |-> TRUE, device |-> TRUE, types |-> <<"bin">>],
   [cached |-> FALSE, device |-> TRUE, types |-> <<"text", "bin">>],
   [cached |-> FALSE, device |-> TRUE, types |-> <<"bin", "text">>],
   [cached |-> FALSE, device |-> FALSE, types |-> <<"text", "bin">>]}
=============================================================================
