------------------------------ MODULE Readings ------------------------------
(***************************************************************************)
(* What the parts of the engine pass each other: fields and the readings   *)
(* heard of them.                                                          *)
(***************************************************************************)
EXTENDS Naturals

CONSTANTS
    Fields,  \* fully qualified fields: device, tab and index
    Values,  \* the values a field can take
    None     \* Option::None

\* A value, and (for the properties only) how many values the field had had
\* when the reading was put on the bus.
Reading == [val : Values, at : Nat]

\* A reading of a field, as a frame on the bus carries it.
Frame == [field : Fields, rd : Reading]
=============================================================================
